---- MODULE Spec2Model ----
(***************************************************************************)
(* Tag-page engine of obsidian-tag-page: tag queries, the unit and bullet  *)
(* scanners, per-variant grouping across the vault and the synthesis of    *)
(* the tag-page markdown.                                                  *)
(*                                                                         *)
(* Text is modelled as a sequence of one-character strings, so that the    *)
(* string and regular-expression operations of the source are computed     *)
(* character by character.  A JavaScript Map is modelled as a sequence of  *)
(* [key, val] records in insertion order (Map iteration order).            *)
(***************************************************************************)
EXTENDS Integers, Sequences, FiniteSets, TLC

VARIABLES
    tag,            \* the raw tag query (tagOfInterest)
    content,        \* the document text handed to the scanners
    settings,       \* the PluginSettings fields read by the engine
    excludeBullets, \* third argument of findSmallestUnitsContainingTag
    called,         \* names of the scanner functions that have returned
    wildCard,       \* value returned by getIsWildCard(tag)
    hasTag,         \* value returned by containsTag(content, tag)
    units,          \* Map returned by findSmallestUnitsContainingTag
    bullets,        \* Map returned by findBulletListsContainingTag
    fileInfo,       \* TagInfo returned by processFile for the document
    allFiles,       \* vault.getMarkdownFiles(): the notes in corpus order
    vault,          \* the text of each note of the vault
    pc,             \* position of renderTagPageBlock for the tag
    pending,        \* notes whose processFile promise has not resolved
    completionOrder,\* notes in the order their promises resolved
    results,        \* the TagInfo each resolved promise holds
    tagsInfo,       \* the TagInfo fetchTagData resolves to
    markdown,       \* the text generateTagPageContent returned
    prevMarkdown,   \* the text of the previous rendering of the block
    renderCount,    \* completed renderings of the block
    scanFileLines,  \* findBulletListsContainingTag: fileLines, the non-empty lines
    lineIndex,      \* findBulletListsContainingTag: lines the forEach has handled
    scan,           \* findBulletListsContainingTag: its mutable locals
    title,          \* the text resolveTagPageTitle returned
    vaultFiles,     \* createTagPage: the text of each file of the vault, by path
    vaultFolders,   \* createTagPage: the folders of the vault
    activeFile,     \* createTagPage: path of the file opened in the workspace leaf
    stat,           \* creation time (TFile.stat.ctime) of each note
    noteTags,       \* front-matter tags of a note (metaMatter.tags)
    listed,         \* value returned by matchesTagOfInterest(noteTags, tag)
    calls,          \* the invocations of the plugin's async methods, oldest first
    legacyMigrationInProgress, \* TagPagePlugin.legacyMigrationInProgress
    vaultLog,       \* the writing calls the vault has carried out, oldest first
    sections        \* renderTagPageBlock: what the block's element shows

scanVars == <<content, excludeBullets, called, wildCard, hasTag, units, bullets, fileInfo>>

fetchVars == <<allFiles, vault, pc, pending, completionOrder, results, tagsInfo,
               markdown, prevMarkdown, renderCount>>

stepVars == <<scanFileLines, lineIndex, scan>>

pageVars == <<title, vaultFiles, vaultFolders, activeFile>>

metaVars == <<stat, noteTags, listed>>

taskVars == <<calls, legacyMigrationInProgress, vaultLog, sections>>

auxVars == <<stepVars, pageVars, metaVars, taskVars>>

vars == <<tag, settings, scanVars, fetchVars, auxVars>>

(***************************************************************************)
(* Bounds of the model.                                                    *)
(***************************************************************************)
MaxTagLen == 5      \* longest raw tag string enumerated for getIsWildCard
MaxWords == 2       \* most words on the line scanned in SpecMatch
MaxLines == 3       \* most lines of a note scanned in SpecBullet
MaxFiles == 2       \* most notes in the vault in SpecFetch
MaxRenders == 2     \* renderings of the tag-page block in SpecFetch

(***************************************************************************)
(* JavaScript string primitives.                                           *)
(***************************************************************************)
\* \s of a JavaScript regular expression, restricted to the characters used.
IsSpace(c) == c \in {" ", "\n", "\t"}

\* String.prototype.toLowerCase on one character (the upper-case letters used).
Lower(c) ==
    CASE c = "A" -> "a"
      [] c = "B" -> "b"
      [] c = "C" -> "c"
      [] OTHER   -> c

RECURSIVE ToLowerCase(_)
ToLowerCase(s) ==
    IF s = <<>> THEN <<>> ELSE <<Lower(Head(s))>> \o ToLowerCase(Tail(s))

\* s.slice(0, -n)
SliceEnd(s, n) == IF Len(s) <= n THEN <<>> ELSE SubSeq(s, 1, Len(s) - n)

\* s.endsWith(suffix)
EndsWith(s, suffix) ==
    /\ Len(s) >= Len(suffix)
    /\ SubSeq(s, Len(s) - Len(suffix) + 1, Len(s)) = suffix

\* s.startsWith(prefix)
StartsWith(s, prefix) ==
    /\ Len(s) >= Len(prefix)
    /\ SubSeq(s, 1, Len(prefix)) = prefix

\* the literal text p occurs in s at 1-based position i (case-sensitive)
OccursAt(s, p, i) ==
    /\ i >= 1
    /\ i + Len(p) - 1 <= Len(s)
    /\ SubSeq(s, i, i + Len(p) - 1) = p

\* the literal text p occurs in s at position i under the regex flag 'i'
OccursAtI(s, p, i) ==
    /\ i >= 1
    /\ i + Len(p) - 1 <= Len(s)
    /\ ToLowerCase(SubSeq(s, i, i + Len(p) - 1)) = ToLowerCase(p)

\* s.includes(p)
Includes(s, p) == \E i \in 1..(Len(s) + 1) : OccursAt(s, p, i)

WildcardSuffix == <<"/", "*">>

(***************************************************************************)
(* getIsWildCard                                                           *)
(***************************************************************************)
getIsWildCard_keepSuffix(t) ==
    [isWildCard |-> EndsWith(t, WildcardSuffix), cleanedTag |-> t]

getIsWildCard(t) ==
    LET isWildCard == EndsWith(t, WildcardSuffix)
    IN  [isWildCard |-> isWildCard,
         cleanedTag |-> IF isWildCard THEN SliceEnd(t, 2) ELSE t]

\* s.trim()
RECURSIVE TrimStart(_)
TrimStart(s) ==
    IF s # <<>> /\ IsSpace(Head(s)) THEN TrimStart(Tail(s)) ELSE s

RECURSIVE TrimEnd(_)
TrimEnd(s) ==
    IF s # <<>> /\ IsSpace(s[Len(s)]) THEN TrimEnd(SubSeq(s, 1, Len(s) - 1)) ELSE s

Trim(s) == TrimEnd(TrimStart(s))

\* line.search(/\S/): 0-based index of the first non-blank character, or -1
SearchNonSpace(s) == IF Trim(s) = <<>> THEN -1 ELSE Len(s) - Len(TrimStart(s))

\* s.split(sep) for a one-character separator
Split(s, sep) ==
    LET seps == {i \in 1..Len(s) : s[i] = sep}
        \* position of the k-th separator; 0 before the first, Len(s)+1 after the last
        at(k) == IF k = 0 THEN 0
                 ELSE IF k > Cardinality(seps) THEN Len(s) + 1
                 ELSE CHOOSE i \in seps : Cardinality({j \in seps : j < i}) = k - 1
    IN  [k \in 1..(Cardinality(seps) + 1) |-> SubSeq(s, at(k - 1) + 1, at(k) - 1)]

\* array.join(sep)
RECURSIVE Join(_, _)
Join(arr, sep) ==
    IF arr = <<>> THEN <<>>
    ELSE IF Len(arr) = 1 THEN arr[1]
    ELSE arr[1] \o sep \o Join(Tail(arr), sep)

Range(f) == {f[i] : i \in DOMAIN f}

\* length of the run [^\s]* starting at position j of line
RECURSIVE NonSpaceRun(_, _)
NonSpaceRun(line, j) ==
    IF j > Len(line) \/ IsSpace(line[j]) THEN 0 ELSE 1 + NonSpaceRun(line, j + 1)

(***************************************************************************)
(* Map<string, T>: a sequence of [key, val] in insertion order.            *)
(***************************************************************************)
MapHas(m, k) == \E i \in 1..Len(m) : m[i].key = k

MapGet(m, k) == m[CHOOSE i \in 1..Len(m) : m[i].key = k].val

MapKeys(m) == [i \in 1..Len(m) |-> m[i].key]

\* Map.set: an existing key keeps its position, a new key goes last
MapSet(m, k, v) ==
    IF MapHas(m, k)
    THEN [i \in 1..Len(m) |-> IF m[i].key = k THEN [key |-> k, val |-> v] ELSE m[i]]
    ELSE Append(m, [key |-> k, val |-> v])

(***************************************************************************)
(* containsTag.  The regular expression is built from the cleaned tag      *)
(* without escaping; the tags of the model hold no regex metacharacter,    *)
(* so the pattern is the literal tag followed by one \s character.         *)
(***************************************************************************)
containsTag(stringToSearch, t) ==
    LET q == getIsWildCard(t)
        lowerStringToSearch == ToLowerCase(stringToSearch)
        lowerCleanedTag == ToLowerCase(q.cleanedTag)
    IN  IF q.isWildCard
        THEN Includes(lowerStringToSearch, lowerCleanedTag)
        ELSE \E i \in 1..Len(lowerStringToSearch) :
                /\ OccursAt(lowerStringToSearch, lowerCleanedTag, i)
                /\ i + Len(lowerCleanedTag) <= Len(lowerStringToSearch)
                /\ IsSpace(lowerStringToSearch[i + Len(lowerCleanedTag)])

(***************************************************************************)
(* findSmallestUnitsContainingTag                                          *)
(***************************************************************************)
\* Length of the match of escapedSubstring + wildcardPattern at position i
\* of line (flags 'gi'), or -1 when the pattern does not match there.
UnitMatchLen(line, i, cleanedTag, isWildCard) ==
    IF ~OccursAtI(line, cleanedTag, i) THEN -1
    ELSE LET j == i + Len(cleanedTag)
         IN  IF isWildCard /\ j <= Len(line) /\ line[j] = "/"
             THEN Len(cleanedTag) + 1 + NonSpaceRun(line, j + 1)
             ELSE Len(cleanedTag)

\* [...line.matchAll(regex)]: the matched texts, left to right, not overlapping
RECURSIVE UnitMatches(_, _, _, _)
UnitMatches(line, pos, cleanedTag, isWildCard) ==
    IF pos > Len(line) + 1 THEN <<>>
    ELSE LET n == UnitMatchLen(line, pos, cleanedTag, isWildCard)
         IN  IF n < 0 THEN UnitMatches(line, pos + 1, cleanedTag, isWildCard)
             ELSE <<SubSeq(line, pos, pos + n - 1)>>
                  \o UnitMatches(line, IF n = 0 THEN pos + 1 ELSE pos + n,
                                 cleanedTag, isWildCard)

\* body of matches.forEach for one match of one line
UnitAddMatch(matchesMap, line, match, isWildCard) ==
    LET lower == ToLowerCase(match)
        key == IF isWildCard /\ EndsWith(lower, WildcardSuffix)
               THEN SliceEnd(lower, 2) ELSE lower
    IN  IF ~MapHas(matchesMap, key)
        THEN MapSet(matchesMap, key, <<Trim(line)>>)
        ELSE IF Trim(line) \in Range(MapGet(matchesMap, key))
             THEN matchesMap
             ELSE MapSet(matchesMap, key, Append(MapGet(matchesMap, key), Trim(line)))

RECURSIVE UnitAddMatches(_, _, _, _)
UnitAddMatches(matchesMap, line, matches, isWildCard) ==
    IF matches = <<>> THEN matchesMap
    ELSE UnitAddMatches(UnitAddMatch(matchesMap, line, Head(matches), isWildCard),
                        line, Tail(matches), isWildCard)

RECURSIVE UnitScanLines(_, _, _, _)
UnitScanLines(matchesMap, contentLines, cleanedTag, isWildCard) ==
    IF contentLines = <<>> THEN matchesMap
    ELSE UnitScanLines(
            UnitAddMatches(matchesMap, Head(contentLines),
                           UnitMatches(Head(contentLines), 1, cleanedTag, isWildCard),
                           isWildCard),
            Tail(contentLines), cleanedTag, isWildCard)

UnitContentLines_keepBullets(lines, exclude) == lines

\* content.split('\n').filter(line => !(excludeBullets && line.trim().startsWith('-')))
RECURSIVE UnitContentLines(_, _)
UnitContentLines(lines, exclude) ==
    IF lines = <<>> THEN <<>>
    ELSE (IF exclude /\ StartsWith(Trim(Head(lines)), <<"-">>)
          THEN <<>> ELSE <<Head(lines)>>)
         \o UnitContentLines(Tail(lines), exclude)

findSmallestUnitsContainingTag(text, t, exclude) ==
    LET q == getIsWildCard(t)
    IN  UnitScanLines(<<>>, UnitContentLines(Split(text, "\n"), exclude),
                      q.cleanedTag, q.isWildCard)

(***************************************************************************)
(* findBulletListsContainingTag                                            *)
(***************************************************************************)
\* Length of the match of tagRegex at position i of line, or -1.
\*   wildcard: cleanedTag(/[^\s]+)?      exact: cleanedTag(?![^\s])
BulletMatchLen(line, i, cleanedTag, isWildCard) ==
    IF ~OccursAtI(line, cleanedTag, i) THEN -1
    ELSE LET j == i + Len(cleanedTag)
         IN  IF isWildCard
             THEN IF j <= Len(line) /\ line[j] = "/" /\ NonSpaceRun(line, j + 1) >= 1
                  THEN Len(cleanedTag) + 1 + NonSpaceRun(line, j + 1)
                  ELSE Len(cleanedTag)
             ELSE IF j > Len(line) \/ IsSpace(line[j])
                  THEN Len(cleanedTag)
                  ELSE -1

\* line.match(regex) with the 'g' flag; the empty sequence stands for null
RECURSIVE BulletMatches(_, _, _, _)
BulletMatches(line, pos, cleanedTag, isWildCard) ==
    IF pos > Len(line) + 1 THEN <<>>
    ELSE LET n == BulletMatchLen(line, pos, cleanedTag, isWildCard)
         IN  IF n < 0 THEN BulletMatches(line, pos + 1, cleanedTag, isWildCard)
             ELSE <<SubSeq(line, pos, pos + n - 1)>>
                  \o BulletMatches(line, IF n = 0 THEN pos + 1 ELSE pos + n,
                                   cleanedTag, isWildCard)

\* the mutable locals of findBulletListsContainingTag before the first line
BulletInit ==
    [capturedBulletLists |-> <<>>,
     currentBulletIndentation |-> 0,
     lastTagsAtCurrentIndentation |-> {},
     capturingSubBullet |-> FALSE]

\* body of matches.forEach for one match of a bullet line
BulletAddMatch(st, line, match, isWildCard) ==
    LET lineTrim == Trim(line)
        lineIndentation == SearchNonSpace(line)
        trimmedMatch == IF isWildCard /\ EndsWith(match, <<"/">>)
                        THEN SliceEnd(match, 1) ELSE match
        key == ToLowerCase(trimmedMatch)
        m0 == IF MapHas(st.capturedBulletLists, key)
              THEN st.capturedBulletLists
              ELSE MapSet(st.capturedBulletLists, key, <<>>)
        pushed == IF lineIndentation > st.currentBulletIndentation
                     /\ st.capturingSubBullet
                  THEN line ELSE lineTrim
    IN  [st EXCEPT
            !.capturedBulletLists = MapSet(m0, key, Append(MapGet(m0, key), pushed)),
            !.lastTagsAtCurrentIndentation = @ \cup {key}]

RECURSIVE BulletAddMatches(_, _, _, _)
BulletAddMatches(st, line, matches, isWildCard) ==
    IF matches = <<>> THEN st
    ELSE BulletAddMatches(BulletAddMatch(st, line, Head(matches), isWildCard),
                          line, Tail(matches), isWildCard)

BulletPushSub_trimmed(captured, tags, line) ==
    [i \in 1..Len(captured) |->
        IF captured[i].key \in tags
        THEN [key |-> captured[i].key, val |-> Append(captured[i].val, Trim(line))]
        ELSE captured[i]]

BulletPushSub_everyKey(captured, tags, line) ==
    [i \in 1..Len(captured) |->
        [key |-> captured[i].key, val |-> Append(captured[i].val, line)]]

\* lastTagsAtCurrentIndentation.forEach(tag => capturedBulletLists.get(tag)?.push(line))
BulletPushSub(captured, tags, line) ==
    [i \in 1..Len(captured) |->
        IF captured[i].key \in tags
        THEN [key |-> captured[i].key, val |-> Append(captured[i].val, line)]
        ELSE captured[i]]

BulletStep_keepOpen(st, line, t) ==
    LET lineTrim == Trim(line)
        startsWithBullet == StartsWith(lineTrim, <<"-", " ">>)
        lineIndentation == SearchNonSpace(line)
        q == getIsWildCard(t)
        matches == BulletMatches(line, 1, q.cleanedTag, q.isWildCard)
        st1 == IF matches # <<>>
               THEN [st EXCEPT !.capturingSubBullet = FALSE,
                               !.currentBulletIndentation = lineIndentation,
                               !.lastTagsAtCurrentIndentation = {}]
               ELSE st
    IN  IF ~startsWithBullet THEN st
        ELSE IF matches # <<>>
        THEN BulletAddMatches([st1 EXCEPT !.capturingSubBullet = FALSE],
                              line, matches, q.isWildCard)
        ELSE IF lineIndentation > st1.currentBulletIndentation
                /\ st1.lastTagsAtCurrentIndentation # {}
        THEN [st1 EXCEPT
                !.capturingSubBullet = TRUE,
                !.capturedBulletLists =
                    BulletPushSub(@, st1.lastTagsAtCurrentIndentation, line)]
        ELSE st1

\* body of fileLines.forEach for one line
BulletStep(st, line, t) ==
    LET lineTrim == Trim(line)
        startsWithBullet == StartsWith(lineTrim, <<"-", " ">>)
        lineIndentation == SearchNonSpace(line)
        q == getIsWildCard(t)
        matches == BulletMatches(line, 1, q.cleanedTag, q.isWildCard)
        st1 == IF matches # <<>> \/ lineIndentation <= st.currentBulletIndentation
               THEN [st EXCEPT !.capturingSubBullet = FALSE,
                               !.currentBulletIndentation = lineIndentation,
                               !.lastTagsAtCurrentIndentation = {}]
               ELSE st
    IN  IF ~startsWithBullet THEN st
        ELSE IF matches # <<>>
        THEN BulletAddMatches([st1 EXCEPT !.capturingSubBullet = FALSE],
                              line, matches, q.isWildCard)
        ELSE IF lineIndentation > st1.currentBulletIndentation
                /\ st1.lastTagsAtCurrentIndentation # {}
        THEN [st1 EXCEPT
                !.capturingSubBullet = TRUE,
                !.capturedBulletLists =
                    BulletPushSub(@, st1.lastTagsAtCurrentIndentation, line)]
        ELSE st1

RECURSIVE BulletScanLines(_, _, _)
BulletScanLines(st, fileLines, t) ==
    IF fileLines = <<>> THEN st
    ELSE BulletScanLines(BulletStep(st, Head(fileLines), t), Tail(fileLines), t)

\* content.split('\n').filter(line => line.trim() !== '')
RECURSIVE NonEmptyLines(_)
NonEmptyLines(lines) ==
    IF lines = <<>> THEN <<>>
    ELSE (IF Trim(Head(lines)) # <<>> THEN <<Head(lines)>> ELSE <<>>)
         \o NonEmptyLines(Tail(lines))

findBulletListsContainingTag(text, t) ==
    BulletScanLines(BulletInit, NonEmptyLines(Split(text, "\n")), t).capturedBulletLists

(***************************************************************************)
(* consolidateTagInfo and processFile                                      *)
(***************************************************************************)
\* `[[${file.basename}]]`
FileLink(basename) == <<"[", "[">> \o basename \o <<"]", "]">>

\* matches.map(matchString => ({stringContainingTag, fileLink}))
NewMatches(matches, fileLink) ==
    [i \in 1..Len(matches) |->
        [stringContainingTag |-> matches[i], fileLink |-> fileLink]]

\* addMatchesToConsolidatedInfo
addMatchesToConsolidatedInfo(consolidatedInfo, k, matches, fileLink) ==
    LET existingMatches == IF MapHas(consolidatedInfo, k)
                           THEN MapGet(consolidatedInfo, k) ELSE <<>>
    IN  MapSet(consolidatedInfo, k, existingMatches \o NewMatches(matches, fileLink))

RECURSIVE AddAllMatches(_, _, _)
AddAllMatches(consolidatedInfo, m, fileLink) ==
    IF m = <<>> THEN consolidatedInfo
    ELSE AddAllMatches(
            addMatchesToConsolidatedInfo(consolidatedInfo, Head(m).key, Head(m).val, fileLink),
            Tail(m), fileLink)

\* An argument that is undefined is passed as the empty Map: both add nothing.
consolidateTagInfo(fileLink, unitsContainingTag, bulletListsContainingTag) ==
    AddAllMatches(AddAllMatches(<<>>, unitsContainingTag, fileLink),
                  bulletListsContainingTag, fileLink)

\* processFile after the read of the file has returned fileContents
processFile(cfg, basename, fileContents, tagOfInterest) ==
    IF ~containsTag(fileContents, tagOfInterest) THEN <<>>
    ELSE IF cfg.bulletedSubItems /\ cfg.includeLines
    THEN consolidateTagInfo(FileLink(basename),
            findSmallestUnitsContainingTag(fileContents, tagOfInterest, TRUE),
            findBulletListsContainingTag(fileContents, tagOfInterest))
    ELSE IF cfg.bulletedSubItems /\ ~cfg.includeLines
    THEN consolidateTagInfo(FileLink(basename), <<>>,
            findBulletListsContainingTag(fileContents, tagOfInterest))
    ELSE consolidateTagInfo(FileLink(basename),
            findSmallestUnitsContainingTag(fileContents, tagOfInterest, FALSE),
            <<>>)

(***************************************************************************)
(* isTagPage (utils/obsidianApi).  A front-matter value or an optional     *)
(* argument is [defined, value]; undefined is [defined |-> FALSE].         *)
(***************************************************************************)
Undefined == [defined |-> FALSE, value |-> <<>>]

Some(v) == [defined |-> TRUE, value |-> v]

isTagPage_keyPresent(frontmatterValue, tagOfInterest) ==
    IF tagOfInterest.defined
    THEN frontmatterValue.defined /\ frontmatterValue.value = tagOfInterest.value
    ELSE frontmatterValue.defined

\* frontmatterValue: the note's front-matter value under tagPageFrontmatterKey
isTagPage(frontmatterValue, tagOfInterest) ==
    IF tagOfInterest.defined
    THEN frontmatterValue.defined /\ frontmatterValue.value = tagOfInterest.value
    ELSE frontmatterValue.defined /\ frontmatterValue.value # <<>>

(***************************************************************************)
(* fetchTagData                                                            *)
(***************************************************************************)
\* allFiles.filter(file => !isTagPage(app, settings.frontmatterQueryProperty, file))
RECURSIVE FilterTagPages(_, _)
FilterTagPages(files, info) ==
    IF files = <<>> THEN <<>>
    ELSE (IF isTagPage(info[Head(files)].query, Undefined) THEN <<>> ELSE <<Head(files)>>)
         \o FilterTagPages(Tail(files), info)

PromiseAll_completionOrder(promises, resolved, order) ==
    [i \in 1..Len(order) |-> resolved[order[i]]]

\* Promise.all: the fulfilment values in the order of the promises passed in,
\* whatever the order in which they resolved
PromiseAll(promises, resolved, order) ==
    [i \in 1..Len(promises) |-> resolved[promises[i]]]

\* tagInfo.forEach((details, tag) => consolidatedTagInfo.set(tag, existing.concat(details)))
RECURSIVE MergeTagInfo(_, _)
MergeTagInfo(consolidatedTagInfo, tagInfo) ==
    IF tagInfo = <<>> THEN consolidatedTagInfo
    ELSE LET k == Head(tagInfo).key
             existingDetails == IF MapHas(consolidatedTagInfo, k)
                                THEN MapGet(consolidatedTagInfo, k) ELSE <<>>
         IN  MergeTagInfo(MapSet(consolidatedTagInfo, k, existingDetails \o Head(tagInfo).val),
                          Tail(tagInfo))

\* the .then callback of fetchTagData
RECURSIVE MergeTagInfos(_, _)
MergeTagInfos(consolidatedTagInfo, tagInfos) ==
    IF tagInfos = <<>> THEN consolidatedTagInfo
    ELSE MergeTagInfos(MergeTagInfo(consolidatedTagInfo, Head(tagInfos)), Tail(tagInfos))

(***************************************************************************)
(* resolveTagPageTitle                                                     *)
(***************************************************************************)
\* s.replace(pat, rep) for a string pattern: the first occurrence only
RECURSIVE ReplaceFirst(_, _, _)
ReplaceFirst(s, pat, rep) ==
    IF s = <<>> THEN <<>>
    ELSE IF StartsWith(s, pat) THEN rep \o SubSeq(s, Len(pat) + 1, Len(s))
    ELSE <<Head(s)>> \o ReplaceFirst(Tail(s), pat, rep)

\* s.replaceAll(pat, rep) for a non-empty string pattern
RECURSIVE ReplaceAll(_, _, _)
ReplaceAll(s, pat, rep) ==
    IF s = <<>> THEN <<>>
    ELSE IF StartsWith(s, pat) THEN rep \o ReplaceAll(SubSeq(s, Len(pat) + 1, Len(s)), pat, rep)
    ELSE <<Head(s)>> \o ReplaceAll(Tail(s), pat, rep)

DefaultTitleTemplate ==
    <<"T", "a", "g", " ", "C", "o", "n", "t", "e", "n", "t", " ", "f", "o", "r", " ",
      "{", "{", "t", "a", "g", "}", "}">>

resolveTagPageTitle_cleanedTag(cfg, tagOfInterest) ==
    LET template == cfg.tagPageTitleTemplate
        tagText == ReplaceFirst(tagOfInterest, <<"*">>, <<>>)
        tagName == ReplaceFirst(tagText, <<"#">>, <<>>)
    IN  IF template = <<>>
        THEN <<"#", "#", " ", "T", "a", "g", " ", "C", "o", "n", "t", "e", "n", "t", " ",
               "f", "o", "r", " ">> \o getIsWildCard(tagOfInterest).cleanedTag
        ELSE <<"#", "#", " ">> \o
             ReplaceAll(
               ReplaceAll(
                 ReplaceAll(
                   ReplaceAll(template, <<"{", "{", "l", "f", "}", "}">>, <<"\n">>),
                   <<"{", "{", "t", "a", "g", "}", "}">>, <<" ">> \o tagText),
                 <<"{", "{", "t", "a", "g", "n", "a", "m", "e", "}", "}">>, tagName),
               <<" ", " ">>, <<" ">>)

resolveTagPageTitle(cfg, tagOfInterest) ==
    LET template == cfg.tagPageTitleTemplate
        tagText == ReplaceFirst(tagOfInterest, <<"*">>, <<>>)
        tagName == ReplaceFirst(tagText, <<"#">>, <<>>)
    IN  IF template = <<>>
        THEN <<"#", "#", " ", "T", "a", "g", " ", "C", "o", "n", "t", "e", "n", "t", " ",
               "f", "o", "r", " ">> \o tagText
        ELSE <<"#", "#", " ">> \o
             ReplaceAll(
               ReplaceAll(
                 ReplaceAll(
                   ReplaceAll(template, <<"{", "{", "l", "f", "}", "}">>, <<"\n">>),
                   <<"{", "{", "t", "a", "g", "}", "}">>, <<" ">> \o tagText),
                 <<"{", "{", "t", "a", "g", "n", "a", "m", "e", "}", "}">>, tagName),
               <<" ", " ">>, <<" ">>)

(***************************************************************************)
(* processTagMatch                                                         *)
(***************************************************************************)
\* The texts of the model hold no embed ("![[...]]" or "![...](...)"), so
\* neither replace call of resolveRelativeEmbeds finds a match.
resolveRelativeEmbeds(text) == text

\* the line(s) processTagMatch pushes onto tagPageContent for one match
processTagMatch_linkEveryEntry(fullTag, fileLink, linkAtEnd) ==
    LET resolvedTag == resolveRelativeEmbeds(fullTag)
    IN  IF linkAtEnd THEN resolvedTag \o <<" ">> \o fileLink
        ELSE fileLink \o <<" ">> \o resolvedTag

processTagMatch(fullTag, fileLink, linkAtEnd) ==
    LET resolvedTag == resolveRelativeEmbeds(fullTag)
        parts == Split(resolvedTag, "\n")
        firstBullet == Head(parts)
        restLines == Tail(parts)
        \* firstBullet.match(/^(\s*)-/)
        afterIndent == TrimStart(firstBullet)
        firstBulletIndent == StartsWith(afterIndent, <<"-">>)
        indentLength == Len(firstBullet) - Len(afterIndent)
        \* firstBullet.match(/^(\s*-\s*)(.*)$/)
        rest == IF firstBulletIndent THEN TrimStart(Tail(afterIndent)) ELSE <<>>
        prefix == SubSeq(firstBullet, 1, Len(firstBullet) - Len(rest))
    IN  IF StartsWith(Trim(resolvedTag), <<"-">>)
        THEN IF firstBulletIndent /\ indentLength > 0
             THEN resolvedTag
             ELSE IF linkAtEnd
             THEN Join(<<firstBullet \o <<" ">> \o fileLink>> \o restLines, <<"\n">>)
             ELSE IF firstBulletIndent
             THEN Join(<<TrimEnd(prefix \o fileLink \o <<" ">> \o rest)>> \o restLines, <<"\n">>)
             ELSE Join(<<TrimEnd(fileLink \o <<" ">> \o firstBullet)>> \o restLines, <<"\n">>)
        ELSE IF linkAtEnd
             THEN TrimEnd(<<"-", " ">> \o resolvedTag \o <<" ">> \o fileLink)
             ELSE TrimEnd(<<"-", " ">> \o fileLink \o <<" ">> \o resolvedTag)

(***************************************************************************)
(* matchesTagOfInterest and generateTagPageContent                         *)
(***************************************************************************)
matchesTagOfInterest_anyPrefix(tags, tagOfInterest) ==
    LET q == getIsWildCard(tagOfInterest)
        tagBase == q.cleanedTag
    IN  IF q.isWildCard
        THEN \E i \in 1..Len(tags) : StartsWith(<<"#">> \o tags[i], tagBase)
        ELSE \E i \in 1..Len(tags) : <<"#">> \o tags[i] = tagBase

matchesTagOfInterest(tags, tagOfInterest) ==
    LET q == getIsWildCard(tagOfInterest)
        tagBase == q.cleanedTag
    IN  IF q.isWildCard
        THEN \E i \in 1..Len(tags) :
                \/ <<"#">> \o tags[i] = tagBase
                \/ StartsWith(<<"#">> \o tags[i], tagBase \o <<"/">>)
        ELSE \E i \in 1..Len(tags) : <<"#">> \o tags[i] = tagBase

InsertByKeyLength_prepend(sorted, e) == <<e>> \o sorted

\* insertion of one entry into an array sorted by key length, after its equals
RECURSIVE InsertByKeyLength(_, _)
InsertByKeyLength(sorted, e) ==
    IF sorted = <<>> THEN <<e>>
    ELSE IF Len(e.key) < Len(Head(sorted).key) THEN <<e>> \o sorted
    ELSE <<Head(sorted)>> \o InsertByKeyLength(Tail(sorted), e)

RECURSIVE SortFrom(_, _)
SortFrom(sorted, entries) ==
    IF entries = <<>> THEN sorted
    ELSE SortFrom(InsertByKeyLength(sorted, Head(entries)), Tail(entries))

SortByKeyLength_unsorted(entries) == entries

\* Array.from(tagsInfo).sort((a, b) => a[0].length - b[0].length): a stable sort
SortByKeyLength(entries) == SortFrom(<<>>, entries)

\* details.forEach(... processTagMatch ...)
DetailLines(details, linkAtEnd) ==
    [i \in 1..Len(details) |->
        processTagMatch(details[i].stringContainingTag, details[i].fileLink, linkAtEnd)]

RECURSIVE SectionLines(_, _, _)
SectionLines(entries, withHeader, linkAtEnd) ==
    IF entries = <<>> THEN <<>>
    ELSE (IF withHeader THEN <<<<"#", "#", "#", " ">> \o Head(entries).key>> ELSE <<>>)
         \o DetailLines(Head(entries).val, linkAtEnd)
         \o SectionLines(Tail(entries), withHeader, linkAtEnd)

\* the files whose front-matter tags match, as `- [[basename]]` lines
RECURSIVE FrontmatterLines(_, _, _)
FrontmatterLines(files, info, tagOfInterest) ==
    IF files = <<>> THEN <<>>
    ELSE LET tags == info[Head(files)].tags
         IN  (IF tags.defined /\ matchesTagOfInterest(tags.value, tagOfInterest)
              THEN <<<<"-", " ">> \o FileLink(info[Head(files)].basename)>>
              ELSE <<>>)
             \o FrontmatterLines(Tail(files), info, tagOfInterest)

FrontmatterHeading(tagOfInterest) ==
    <<"#", "#", " ", "F", "i", "l", "e", "s", " ", "w", "i", "t", "h", " ">>
    \o getIsWildCard(tagOfInterest).cleanedTag
    \o <<" ", "i", "n", " ", "f", "r", "o", "n", "t", "m", "a", "t", "t", "e", "r">>

\* the array tagPageContent before the final join
TagPageContent(cfg, info, files, tagInfo, tagOfInterest) ==
    LET filesWithFrontmatterTag == FrontmatterLines(files, info, tagOfInterest)
    IN  <<resolveTagPageTitle(cfg, tagOfInterest)>>
        \o (IF Len(tagInfo) > 1
            THEN SectionLines(SortByKeyLength(tagInfo), TRUE, cfg.linkAtEnd)
            ELSE SectionLines(tagInfo, FALSE, cfg.linkAtEnd))
        \o (IF Len(filesWithFrontmatterTag) > 0
            THEN <<FrontmatterHeading(tagOfInterest)>> \o filesWithFrontmatterTag
            ELSE <<>>)

generateTagPageContent(cfg, info, files, tagInfo, tagOfInterest) ==
    Join(TagPageContent(cfg, info, files, tagInfo, tagOfInterest), <<"\n">>)

(***************************************************************************)
(* Values of the variables a specification does not use.                   *)
(***************************************************************************)
NoMap == <<>>

NoWildCard == [isWildCard |-> FALSE, cleanedTag |-> <<>>]

DefaultSettings ==
    [bulletedSubItems |-> TRUE, includeLines |-> TRUE, linkAtEnd |-> TRUE,
     tagPageTitleTemplate |-> DefaultTitleTemplate]

ScanIdle ==
    /\ excludeBullets = FALSE
    /\ called = {}
    /\ wildCard = NoWildCard
    /\ hasTag = FALSE
    /\ units = NoMap
    /\ bullets = NoMap
    /\ fileInfo = NoMap

FetchIdle ==
    /\ allFiles = <<>>
    /\ vault = <<>>
    /\ pc = "idle"
    /\ pending = {}
    /\ completionOrder = <<>>
    /\ results = <<>>
    /\ tagsInfo = NoMap
    /\ markdown = <<>>
    /\ prevMarkdown = <<>>
    /\ renderCount = 0

TaskIdle ==
    /\ calls = <<>>
    /\ legacyMigrationInProgress = {}
    /\ vaultLog = <<>>
    /\ sections = <<>>

AuxIdle ==
    /\ scanFileLines = <<>>
    /\ lineIndex = 0
    /\ scan = BulletInit
    /\ title = <<>>
    /\ vaultFiles = <<>>
    /\ vaultFolders = {}
    /\ activeFile = <<>>
    /\ stat = <<>>
    /\ noteTags = <<>>
    /\ listed = FALSE
    /\ TaskIdle

(***************************************************************************)
(* The calls of the scanner functions on the document of the state.        *)
(***************************************************************************)
CallGetIsWildCard ==
    /\ "getIsWildCard" \notin called
    /\ wildCard' = getIsWildCard(tag)
    /\ called' = called \cup {"getIsWildCard"}
    /\ UNCHANGED <<tag, settings, content, excludeBullets, hasTag, units, bullets,
                   fileInfo, fetchVars, auxVars>>

CallContainsTag ==
    /\ "containsTag" \notin called
    /\ hasTag' = containsTag(content, tag)
    /\ called' = called \cup {"containsTag"}
    /\ UNCHANGED <<tag, settings, content, excludeBullets, wildCard, units, bullets,
                   fileInfo, fetchVars, auxVars>>

CallFindUnits ==
    /\ "findSmallestUnitsContainingTag" \notin called
    /\ \E ex \in BOOLEAN :
        /\ excludeBullets' = ex
        /\ units' = findSmallestUnitsContainingTag(content, tag, ex)
    /\ called' = called \cup {"findSmallestUnitsContainingTag"}
    /\ UNCHANGED <<tag, settings, content, wildCard, hasTag, bullets, fileInfo, fetchVars, auxVars>>

CallFindBullets ==
    /\ "findBulletListsContainingTag" \notin called
    /\ bullets' = findBulletListsContainingTag(content, tag)
    /\ called' = called \cup {"findBulletListsContainingTag"}
    /\ UNCHANGED <<tag, settings, content, excludeBullets, wildCard, hasTag, units,
                   fileInfo, fetchVars, auxVars>>

ScanBasename == <<"n">>

CallProcessFile ==
    /\ "processFile" \notin called
    /\ fileInfo' = processFile(settings, ScanBasename, content, tag)
    /\ called' = called \cup {"processFile"}
    /\ UNCHANGED <<tag, settings, content, excludeBullets, wildCard, hasTag, units,
                   bullets, fetchVars, auxVars>>

(***************************************************************************)
(* Specification SpecQuery: getIsWildCard over every raw tag string of at  *)
(* most MaxTagLen characters.                                              *)
(***************************************************************************)
TagAlphabet == {"#", "a", "/", "*"}

RawTags == UNION {[1..n -> TagAlphabet] : n \in 0..MaxTagLen}

InitQuery ==
    /\ tag \in RawTags
    /\ content = <<>>
    /\ settings = DefaultSettings
    /\ ScanIdle
    /\ FetchIdle
    /\ AuxIdle

NextQuery == CallGetIsWildCard

SpecQuery == InitQuery /\ [][NextQuery]_vars

(***************************************************************************)
(* Specification SpecMatch: the three scanners on one line of text made of *)
(* at most MaxWords words, as prose or as a bullet, with or without a      *)
(* final line break.                                                       *)
(***************************************************************************)
TagA == <<"#", "a">>
TagAB == <<"#", "a", "b">>
TagA_B == <<"#", "a", "/", "b">>
TagA_B_C == <<"#", "a", "/", "b", "/", "c">>
QueryAWild == <<"#", "a", "/", "*">>

Words == {TagA, TagAB, TagA_B, TagA_B_C, <<"x">>, <<"y", ".">>}

WordSeqs == UNION {[1..n -> Words] : n \in 1..MaxWords}

MatchTexts ==
    {prefix \o Join(ws, <<" ">>) \o suffix :
        ws \in WordSeqs, prefix \in {<<>>, <<"-", " ">>}, suffix \in {<<>>, <<"\n">>}}

MatchQueries == {TagA, QueryAWild}

InitMatch ==
    /\ tag \in MatchQueries
    /\ content \in MatchTexts
    /\ settings = DefaultSettings
    /\ ScanIdle
    /\ FetchIdle
    /\ AuxIdle

NextMatch == CallContainsTag \/ CallFindUnits \/ CallFindBullets

SpecMatch == InitMatch /\ [][NextMatch]_vars

(***************************************************************************)
(* Specification SpecBullet: the bullet scanner and processFile on notes   *)
(* of at most MaxLines lines, each a bullet at one of three indentations,  *)
(* and on the shopping note of the documentation.                          *)
(***************************************************************************)
TagErrand == <<"#", "e", "r", "r", "a", "n", "d">>

ErrandRoot ==
    <<"-", " ", "B", "u", "y", " ", "m", "i", "l", "k", " ">> \o TagErrand

ErrandChild == <<" ", " ", "-", " ", "a", "l", "s", "o", " ", "e", "g", "g", "s">>

ErrandNote == ErrandRoot \o <<"\n">> \o ErrandChild \o <<"\n">>

IndentWidths == {0, 2, 4}

Spaces(n) == [i \in 1..n |-> " "]

BulletBodies ==
    {<<"-", " ", "r", " ">> \o TagA,
     <<"-", " ", "c">>,
     <<"-", " ", "t", " ">> \o TagA_B}

BulletLines == {Spaces(n) \o b : n \in IndentWidths, b \in BulletBodies}

BulletDocs ==
    {Join(ls, <<"\n">>) \o <<"\n">> :
        ls \in UNION {[1..n -> BulletLines] : n \in 1..MaxLines}}

BulletSettings ==
    {[DefaultSettings EXCEPT !.includeLines = l] : l \in BOOLEAN}

InitBullet ==
    /\ \/ tag \in {TagA, QueryAWild} /\ content \in BulletDocs
       \/ tag = TagErrand /\ content = ErrandNote
    /\ settings \in BulletSettings
    /\ ScanIdle
    /\ FetchIdle
    /\ AuxIdle

NextBullet == CallFindBullets \/ CallProcessFile

SpecBullet == InitBullet /\ [][NextBullet]_vars

(***************************************************************************)
(* Specification SpecFetch: renderTagPageBlock for one tag over a vault of *)
(* at most MaxFiles notes.  fetchTagData starts one processFile per note   *)
(* that is not a tag page; the reads return in any order; Promise.all      *)
(* resolves when all have returned; the merged TagInfo is turned into      *)
(* markdown and rendered.  The block is rendered MaxRenders times.         *)
(***************************************************************************)
TagB == <<"#", "b">>
TagA_C == <<"#", "a", "/", "c">>
TagAlpha == <<"#", "p", "r", "o", "j", "e", "c", "t", "/", "a", "l", "p", "h", "a">>
TagBeta == <<"#", "p", "r", "o", "j", "e", "c", "t", "/", "b", "e", "t", "a">>
QueryProjectWild == <<"#", "p", "r", "o", "j", "e", "c", "t", "/", "*">>

\* a tag-page code block for #a; the fence is written with tildes
TagPageBlock ==
    <<"~", "~", "~", "t", "a", "g", "-", "p", "a", "g", "e", "\n",
      "t", "a", "g", "s", ":", " ", "#", "a", "\n",
      "~", "~", "~", "\n">>

FileIds == {"n1", "n2", "n3", "n4", "n5", "p1", "p2"}

\* one note: its basename, its text, its front-matter value under the
\* tag-page query key and its front-matter tags
Note(id, text, query, tags) ==
    [basename |-> id, content |-> text, query |-> query, tags |-> tags]

FileInfo ==
    [f \in FileIds |->
        CASE f = "n1" ->
                Note(<<"n", "1">>,
                     <<"-", " ", "r", " ">> \o TagA \o <<"\n", " ", " ", "-", " ", "c", "\n",
                       " ", " ", "-", " ", "t", " ">> \o TagA \o <<"\n">>,
                     Undefined, Some(<<<<"a">>>>))
          [] f = "n2" ->
                Note(<<"n", "2">>,
                     <<"x", " ">> \o TagA_C \o <<"\n", "w", " ">> \o TagA \o <<"\n">>,
                     Undefined, Some(<<<<"a", "b">>>>))
          [] f = "n3" ->
                Note(<<"n", "3">>,
                     <<"y", " ">> \o TagA_B \o <<"\n">> \o TagPageBlock \o <<"z", "\n">>,
                     Undefined, Undefined)
          [] f = "n4" ->
                Note(<<"n", "4">>, TagAlpha \o <<"\n">>, Undefined, Undefined)
          [] f = "n5" ->
                Note(<<"n", "5">>, TagBeta \o <<"\n">>, Some(<<>>), Undefined)
          [] f = "p1" ->
                Note(<<"p", "1">>, <<"-", " ", "o", " ">> \o TagA \o <<"\n">>,
                     Some(TagA), Undefined)
          [] f = "p2" ->
                Note(<<"p", "2">>, <<"z", " ">> \o TagA \o <<"\n">>,
                     Some(TagB), Some(<<<<"a", "/", "b">>>>))]

\* the vaults: every sequence of at most MaxFiles distinct notes
Corpora ==
    {c \in UNION {[1..n -> FileIds] : n \in 0..MaxFiles} :
        \A i, j \in 1..Len(c) : i # j => c[i] # c[j]}

FetchSettings ==
    {[DefaultSettings EXCEPT !.bulletedSubItems = b, !.includeLines = l, !.linkAtEnd = e] :
        b \in BOOLEAN, l \in BOOLEAN, e \in BOOLEAN}

FetchQueries == {TagA, QueryAWild, QueryProjectWild}

InitFetch ==
    /\ tag \in FetchQueries
    /\ settings \in FetchSettings
    /\ content = <<>>
    /\ ScanIdle
    /\ AuxIdle
    /\ allFiles \in Corpora
    /\ vault = [f \in Range(allFiles) |-> FileInfo[f].content]
    /\ pc = "idle"
    /\ pending = {}
    /\ completionOrder = <<>>
    /\ results = <<>>
    /\ tagsInfo = NoMap
    /\ markdown = <<>>
    /\ prevMarkdown = <<>>
    /\ renderCount = 0

\* fetchTagData up to its await: the filter and one processFile call per note
StartFetch ==
    /\ pc = "idle"
    /\ renderCount < MaxRenders
    /\ pc' = "reading"
    /\ pending' = Range(FilterTagPages(allFiles, FileInfo))
    /\ completionOrder' = <<>>
    /\ results' = <<>>
    /\ UNCHANGED <<tag, settings, scanVars, auxVars, allFiles, vault, tagsInfo, markdown,
                   prevMarkdown, renderCount>>

\* vault.cachedRead(file) returns and processFile runs to its end
ReadReturns(f) ==
    /\ pc = "reading"
    /\ f \in pending
    /\ pending' = pending \ {f}
    /\ completionOrder' = Append(completionOrder, f)
    /\ results' = (f :> processFile(settings, FileInfo[f].basename, vault[f], tag)) @@ results
    /\ UNCHANGED <<tag, settings, scanVars, auxVars, allFiles, vault, pc, tagsInfo, markdown,
                   prevMarkdown, renderCount>>

\* Promise.all resolves and the .then callback merges the TagInfos
FetchResolves ==
    /\ pc = "reading"
    /\ pending = {}
    /\ tagsInfo' = MergeTagInfos(<<>>,
                       PromiseAll(FilterTagPages(allFiles, FileInfo), results, completionOrder))
    /\ pc' = "fetched"
    /\ UNCHANGED <<tag, settings, scanVars, auxVars, allFiles, vault, pending, completionOrder,
                   results, markdown, prevMarkdown, renderCount>>

\* const markdown = await generateTagPageContent(...)
GenerateContent ==
    /\ pc = "fetched"
    /\ markdown' = generateTagPageContent(settings, FileInfo, allFiles, tagsInfo, tag)
    /\ prevMarkdown' = markdown
    /\ pc' = "generated"
    /\ UNCHANGED <<tag, settings, scanVars, auxVars, allFiles, vault, pending, completionOrder,
                   results, tagsInfo, renderCount>>

\* tagSection.empty(); await MarkdownRenderer.renderMarkdown(markdown, tagSection, ...)
RenderMarkdown ==
    /\ pc = "generated"
    /\ renderCount' = renderCount + 1
    /\ pc' = "idle"
    /\ UNCHANGED <<tag, settings, scanVars, auxVars, allFiles, vault, pending, completionOrder,
                   results, tagsInfo, markdown, prevMarkdown>>

NextFetch ==
    \/ StartFetch
    \/ \E f \in FileIds : ReadReturns(f)
    \/ FetchResolves
    \/ GenerateContent
    \/ RenderMarkdown

SpecFetch == InitFetch /\ [][NextFetch]_vars

(***************************************************************************)
(* Specification SpecNote: containsTag, processFile and the front-matter   *)
(* comparison on notes of at most MaxLines lines (prose and bullets, in    *)
(* lower and upper case, with or without a final line break), for the      *)
(* queries #a and #a/* and for the degenerate queries.                     *)
(***************************************************************************)
TagUpperA == <<"#", "A">>
TagEmpty == <<>>
TagOnlyWild == <<"/", "*">>
TagHash == <<"#">>
TagHashWild == <<"#", "/", "*">>

NoteLines ==
    {<<"x", " ">> \o TagA,
     <<"-", " ", "r", " ">> \o TagA,
     <<"X", " ">> \o TagUpperA}

NoteDocs ==
    {Join(ls, <<"\n">>) \o suffix :
        ls \in UNION {[1..n -> NoteLines] : n \in 1..MaxLines},
        suffix \in {<<>>, <<"\n">>}}

NoteQueries == {TagA, TagUpperA, QueryAWild, TagEmpty, TagOnlyWild, TagHash, TagHashWild}

NoteSettings ==
    {[DefaultSettings EXCEPT !.bulletedSubItems = b, !.includeLines = l] :
        b \in BOOLEAN, l \in BOOLEAN}

\* metaMatter.tags of the note
NoteTagLists == {<<<<"a">>>>, <<<<"A">>>>}

\* matchesTagOfInterest(metaMatter.tags, tagOfInterest) of the front-matter filter
CallMatchesTagOfInterest ==
    /\ "matchesTagOfInterest" \notin called
    /\ listed' = matchesTagOfInterest(noteTags, tag)
    /\ called' = called \cup {"matchesTagOfInterest"}
    /\ UNCHANGED <<tag, settings, content, excludeBullets, wildCard, hasTag, units,
                   bullets, fileInfo, fetchVars, stepVars, pageVars, stat, noteTags, taskVars>>

InitNote ==
    /\ tag \in NoteQueries
    /\ content \in NoteDocs
    /\ settings \in NoteSettings
    /\ ScanIdle
    /\ FetchIdle
    /\ scanFileLines = <<>>
    /\ lineIndex = 0
    /\ scan = BulletInit
    /\ title = <<>>
    /\ vaultFiles = <<>>
    /\ vaultFolders = {}
    /\ activeFile = <<>>
    /\ stat = <<>>
    /\ noteTags \in NoteTagLists
    /\ listed = FALSE
    /\ TaskIdle

NextNote == CallContainsTag \/ CallProcessFile \/ CallMatchesTagOfInterest

SpecNote == InitNote /\ [][NextNote]_vars

(***************************************************************************)
(* Specification SpecSort: fetchTagData followed by the sort by date.      *)
(* The settings declare sortByDate (descending by default) and the match   *)
(* record declares the timestamp taken from TFile.stat.ctime; the pass     *)
(* that sorts is modelled from the specification: after the merge, each    *)
(* group's list is sorted by timestamp in the configured direction,        *)
(* keeping the order of matches with equal timestamps.                     *)
(***************************************************************************)
MaxTime == 2        \* creation times range over 1..MaxTime

\* SortOrder
SortASC == "asc"
SortDESC == "desc"

\* TagMatchDetail.timestamp: the creation time of the note the match links to
TimestampOf(detail, files, info, ctime) ==
    ctime[CHOOSE f \in Range(files) : FileLink(info[f].basename) = detail.fileLink]

\* a comes before b in the configured direction
SortsBefore(a, b, order) == IF order = SortASC THEN a < b ELSE a > b

\* insertion of one match into a sorted list, after the matches it does not precede
RECURSIVE InsertByTimestamp(_, _, _, _, _, _)
InsertByTimestamp(sorted, detail, order, files, info, ctime) ==
    IF sorted = <<>> THEN <<detail>>
    ELSE IF SortsBefore(TimestampOf(detail, files, info, ctime),
                        TimestampOf(Head(sorted), files, info, ctime), order)
    THEN <<detail>> \o sorted
    ELSE <<Head(sorted)>> \o InsertByTimestamp(Tail(sorted), detail, order, files, info, ctime)

RECURSIVE SortDetailsByDate(_, _, _, _, _, _)
SortDetailsByDate(sorted, details, order, files, info, ctime) ==
    IF details = <<>> THEN sorted
    ELSE SortDetailsByDate(InsertByTimestamp(sorted, Head(details), order, files, info, ctime),
                           Tail(details), order, files, info, ctime)

\* the final pass over each group's list
sortTagInfoByDate(tagInfo, order, files, info, ctime) ==
    [k \in 1..Len(tagInfo) |->
        [key |-> tagInfo[k].key,
         val |-> SortDetailsByDate(<<>>, tagInfo[k].val, order, files, info, ctime)]]

SortFileIds == {"n1", "n2", "n3", "p1"}

SortCorpora == {c \in Corpora : Range(c) \subseteq SortFileIds}

SortSettings ==
    {[bulletedSubItems |-> TRUE, includeLines |-> TRUE, linkAtEnd |-> TRUE,
      tagPageTitleTemplate |-> DefaultTitleTemplate, sortByDate |-> o] :
        o \in {SortASC, SortDESC}}

InitSort ==
    /\ tag \in {TagA, QueryAWild}
    /\ settings \in SortSettings
    /\ content = <<>>
    /\ ScanIdle
    /\ allFiles \in SortCorpora
    /\ vault = [f \in Range(allFiles) |-> FileInfo[f].content]
    /\ pc = "idle"
    /\ pending = {}
    /\ completionOrder = <<>>
    /\ results = <<>>
    /\ tagsInfo = NoMap
    /\ markdown = <<>>
    /\ prevMarkdown = <<>>
    /\ renderCount = 0
    /\ scanFileLines = <<>>
    /\ lineIndex = 0
    /\ scan = BulletInit
    /\ title = <<>>
    /\ vaultFiles = <<>>
    /\ vaultFolders = {}
    /\ activeFile = <<>>
    /\ stat \in [Range(allFiles) -> 1..MaxTime]
    /\ noteTags = <<>>
    /\ listed = FALSE
    /\ TaskIdle

\* the sort by date, applied to the merged TagInfo
SortByDatePass ==
    /\ pc = "fetched"
    /\ tagsInfo' = sortTagInfoByDate(tagsInfo, settings.sortByDate, allFiles, FileInfo, stat)
    /\ pc' = "sorted"
    /\ UNCHANGED <<tag, settings, scanVars, auxVars, allFiles, vault, pending,
                   completionOrder, results, markdown, prevMarkdown, renderCount>>

NextSort ==
    \/ StartFetch
    \/ \E f \in FileIds : ReadReturns(f)
    \/ FetchResolves
    \/ SortByDatePass

SpecSort == InitSort /\ [][NextSort]_vars

(***************************************************************************)
(* Specification SpecCreate: the command "Create Tag Page", called any     *)
(* number of times, one call after the other, for tags typed with or       *)
(* without the marker, on a vault that is empty, holds the tag-page        *)
(* folder, or holds a tag page the user has edited.                        *)
(***************************************************************************)
\* generateFilename
generateFilename(cleanedTag, isWildCard, nestedSeparator) ==
    ReplaceAll(ReplaceFirst(cleanedTag, <<"#">>, <<>>), <<"/">>, nestedSeparator)
    \o (IF isWildCard THEN nestedSeparator \o <<"n", "e", "s", "t", "e", "d">> ELSE <<>>)
    \o nestedSeparator \o <<"T", "a", "g", "s", ".", "m", "d">>

\* buildTagPageTemplate; the fence is written with tildes
buildTagPageTemplate(tagOfInterest) ==
    Join(<<<<"~", "~", "~", "t", "a", "g", "-", "p", "a", "g", "e">>, <<"t", "a", "g", "s", ":", " ">> \o tagOfInterest, <<"~", "~", "~">>, <<>>>>, <<"\n">>)

\* normalizePath on a folder path: no slash at either end
RECURSIVE normalizePath(_)
normalizePath(path) ==
    IF path # <<>> /\ Head(path) = "/" THEN normalizePath(Tail(path))
    ELSE IF path # <<>> /\ path[Len(path)] = "/" THEN normalizePath(SubSeq(path, 1, Len(path) - 1))
    ELSE path

createTagPage_overwrite(cfg, files, folders, t) ==
    LET tagOfInterest == IF StartsWith(t, <<"#">>) THEN t ELSE <<"#">> \o t
        q == getIsWildCard(tagOfInterest)
        path == cfg.tagPageDir \o generateFilename(q.cleanedTag, q.isWildCard, cfg.nestedSeparator)
    IN  [files |-> (path :> buildTagPageTemplate(tagOfInterest)) @@ files,
         folders |-> folders \cup {normalizePath(cfg.tagPageDir)},
         opened |-> path]

\* createTagPage: the vault and the opened file after the call
createTagPage(cfg, files, folders, t) ==
    LET tagOfInterest == IF StartsWith(t, <<"#">>) THEN t ELSE <<"#">> \o t
        q == getIsWildCard(tagOfInterest)
        filename == generateFilename(q.cleanedTag, q.isWildCard, cfg.nestedSeparator)
        path == cfg.tagPageDir \o filename
        tagPage == path \in DOMAIN files
    IN  IF ~tagPage
        THEN [files |-> (path :> buildTagPageTemplate(tagOfInterest)) @@ files,
              folders |-> IF normalizePath(cfg.tagPageDir) \in folders
                          THEN folders
                          ELSE folders \cup {normalizePath(cfg.tagPageDir)},
              opened |-> path]
        ELSE [files |-> files, folders |-> folders, opened |-> path]

CreateSettings ==
    [bulletedSubItems |-> TRUE, includeLines |-> TRUE, linkAtEnd |-> TRUE,
     tagPageTitleTemplate |-> DefaultTitleTemplate,
     tagPageDir |-> <<"T", "a", "g", "s", "/">>, nestedSeparator |-> <<"_">>]

\* what the user types into the command
CreateTags ==
    {<<"a">>, TagA, QueryAWild, <<"a", "/", "*">>, TagA_B, <<"#", "a", "_", "b">>, TagB}

\* a tag page for #a the user has added a line to
EditedPage == TagPageBlock \o <<"z", "\n">>

PathA == <<"T", "a", "g", "s", "/", "a", "_", "T", "a", "g", "s", ".", "m", "d">>

InitialVaults ==
    {[files |-> <<>>, folders |-> {}],
     [files |-> <<>>, folders |-> {normalizePath(<<"T", "a", "g", "s", "/">>)}],
     [files |-> (PathA :> EditedPage), folders |-> {normalizePath(<<"T", "a", "g", "s", "/">>)}]}

InitCreate ==
    /\ tag = TagEmpty
    /\ settings = CreateSettings
    /\ content = <<>>
    /\ ScanIdle
    /\ FetchIdle
    /\ scanFileLines = <<>>
    /\ lineIndex = 0
    /\ scan = BulletInit
    /\ title = <<>>
    /\ \E v \in InitialVaults : vaultFiles = v.files /\ vaultFolders = v.folders
    /\ activeFile = <<>>
    /\ stat = <<>>
    /\ noteTags = <<>>
    /\ listed = FALSE
    /\ TaskIdle

\* one call of createTagPage(t), run to its end
CreateTagPage(t) ==
    LET r == createTagPage(settings, vaultFiles, vaultFolders, t)
    IN  /\ tag' = t
        /\ vaultFiles' = r.files
        /\ vaultFolders' = r.folders
        /\ activeFile' = r.opened
        /\ UNCHANGED <<settings, scanVars, fetchVars, stepVars, title, metaVars, taskVars>>

NextCreate == \E t \in CreateTags : CreateTagPage(t)

SpecCreate == InitCreate /\ [][NextCreate]_vars

(***************************************************************************)
(* Specification SpecTitle: resolveTagPageTitle for every well-formed tag  *)
(* of at most MaxTagLen characters (the marker first, "*" only in a final  *)
(* "/*") under an empty template, the default template and a template      *)
(* made of the tag name.                                                   *)
(***************************************************************************)
TitleTags ==
    {t \in RawTags :
        /\ t # <<>>
        /\ t[1] = "#"
        /\ \A i \in 1..Len(t) : t[i] = "*" => (i = Len(t) /\ i > 1 /\ t[i - 1] = "/")}

TitleTemplates ==
    {<<>>, DefaultTitleTemplate, <<"{", "{", "t", "a", "g", "n", "a", "m", "e", "}", "}">>}

TitleSettings ==
    {[DefaultSettings EXCEPT !.tagPageTitleTemplate = t] : t \in TitleTemplates}

InitTitle ==
    /\ tag \in TitleTags
    /\ settings \in TitleSettings
    /\ content = <<>>
    /\ ScanIdle
    /\ FetchIdle
    /\ AuxIdle

\* tagPageContent.push(resolveTagPageTitle(settings, tagOfInterest))
CallResolveTagPageTitle ==
    /\ "resolveTagPageTitle" \notin called
    /\ title' = resolveTagPageTitle(settings, tag)
    /\ called' = called \cup {"resolveTagPageTitle"}
    /\ UNCHANGED <<tag, settings, content, excludeBullets, wildCard, hasTag, units,
                   bullets, fileInfo, fetchVars, stepVars, vaultFiles, vaultFolders,
                   activeFile, metaVars, taskVars>>

NextTitle == CallResolveTagPageTitle

SpecTitle == InitTitle /\ [][NextTitle]_vars

(***************************************************************************)
(* Specification SpecSubtree: findBulletListsContainingTag line by line,   *)
(* one step per call of the forEach callback, on notes of at most MaxLines *)
(* lines: bullets with one tag, with two tags or with none, at two         *)
(* indentations, and a line of prose at the same indentations.             *)
(***************************************************************************)
SubtreeBodies ==
    {<<"-", " ", "m", " ">> \o TagA \o <<" ">> \o TagA_B,
     <<"-", " ", "r", " ">> \o TagA,
     <<"-", " ", "c">>}

SubtreeLines ==
    {Spaces(n) \o b : n \in {0, 2}, b \in SubtreeBodies \cup {<<"p">>}}

SubtreeDocs ==
    {Join(ls, <<"\n">>) \o <<"\n">> :
        ls \in UNION {[1..n -> SubtreeLines] : n \in 1..MaxLines}}

InitSubtree ==
    /\ tag \in {TagA, QueryAWild}
    /\ content \in SubtreeDocs
    /\ settings = DefaultSettings
    /\ ScanIdle
    /\ FetchIdle
    /\ scanFileLines = NonEmptyLines(Split(content, "\n"))
    /\ lineIndex = 0
    /\ scan = BulletInit
    /\ title = <<>>
    /\ vaultFiles = <<>>
    /\ vaultFolders = {}
    /\ activeFile = <<>>
    /\ stat = <<>>
    /\ noteTags = <<>>
    /\ listed = FALSE
    /\ TaskIdle

\* one call of the callback of fileLines.forEach
BulletForEachLine ==
    /\ lineIndex < Len(scanFileLines)
    /\ scan' = BulletStep(scan, scanFileLines[lineIndex + 1], tag)
    /\ lineIndex' = lineIndex + 1
    /\ UNCHANGED <<tag, settings, scanVars, fetchVars, scanFileLines, pageVars, metaVars, taskVars>>

\* return capturedBulletLists
BulletReturn ==
    /\ lineIndex = Len(scanFileLines)
    /\ "findBulletListsContainingTag" \notin called
    /\ bullets' = scan.capturedBulletLists
    /\ called' = called \cup {"findBulletListsContainingTag"}
    /\ UNCHANGED <<tag, settings, content, excludeBullets, wildCard, hasTag, units,
                   fileInfo, fetchVars, auxVars>>

NextSubtree == BulletForEachLine \/ BulletReturn

SpecSubtree == InitSubtree /\ [][NextSubtree]_vars

(***************************************************************************)
(* Migration of legacy tag pages: migrateLegacyTagPage on every file-open  *)
(* event and the command cleanupLegacyTagPageContent.  Each invocation is  *)
(* a record of `calls`; it runs from one await to the next in one step.    *)
(* The code fence is written with tildes.                                  *)
(***************************************************************************)
LEGACY_CONTENT_MARKER ==
    <<"<", "!", "-", "-", " ", "t", "a", "g", "-", "p", "a", "g", "e", "-", "l", "e", "g", "a", "c", "y", "-", "c", "o", "n", "t", "e", "n", "t", " ", "-", "-", ">">>

\* getLegacyFrontmatterKey with the default setting
LegacyKey == <<"t", "a", "g", "-", "p", "a", "g", "e", "-", "q", "u", "e", "r", "y">>

\* metadataCache.getFileCache(file)?.frontmatter?.[legacyKey] for a note whose
\* front matter is the one line `<legacyKey>: <value>`
LegacyFrontmatterValue(text) ==
    LET open == <<"-", "-", "-", "\n">> \o LegacyKey \o <<":", " ">>
    IN  IF StartsWith(text, open)
        THEN LET rest == SubSeq(text, Len(open) + 1, Len(text))
             IN  Some(Split(rest, "\n")[1])
        ELSE Undefined

\* String(rawTags).split(/[,\s]+/).filter(Boolean)
RECURSIVE SplitLegacyTags(_, _)
SplitLegacyTags(s, word) ==
    IF s = <<>> THEN (IF word = <<>> THEN <<>> ELSE <<word>>)
    ELSE IF Head(s) = "," \/ IsSpace(Head(s))
    THEN (IF word = <<>> THEN <<>> ELSE <<word>>) \o SplitLegacyTags(Tail(s), <<>>)
    ELSE SplitLegacyTags(Tail(s), Append(word, Head(s)))

\* Array.from(new Set(list)): first occurrences, in order
RECURSIVE Dedupe(_)
Dedupe(list) ==
    IF list = <<>> THEN <<>>
    ELSE LET front == Dedupe(SubSeq(list, 1, Len(list) - 1))
             last == list[Len(list)]
         IN  IF last \in Range(front) THEN front ELSE Append(front, last)

normalizeLegacyTags(rawTags) ==
    LET tags == SplitLegacyTags(rawTags, <<>>)
    IN  Dedupe([i \in 1..Len(tags) |->
                    IF StartsWith(tags[i], <<"#">>) THEN tags[i] ELSE <<"#">> \o tags[i]])

\* /~~~tag-page[\s\S]*?~~~/i.test(content)
HasTagPageBlock(text) ==
    LET fenceOpen == <<"~", "~", "~", "t", "a", "g", "-", "p", "a", "g", "e">>
    IN  \E i \in 1..Len(text) :
            /\ OccursAtI(text, fenceOpen, i)
            /\ \E j \in (i + Len(fenceOpen))..Len(text) : OccursAt(text, <<"~", "~", "~">>, j)

\* content.match(/^---\n[\s\S]*?\n---\n?/): the matched text, or undefined
FrontmatterMatch(text) ==
    LET ends == {i \in 4..Len(text) : OccursAt(text, <<"\n", "-", "-", "-">>, i)}
    IN  IF StartsWith(text, <<"-", "-", "-", "\n">>) /\ ends # {}
        THEN LET e == (CHOOSE i \in ends : \A k \in ends : i <= k) + 3
                 last == IF e + 1 <= Len(text) /\ text[e + 1] = "\n" THEN e + 1 ELSE e
             IN  Some(SubSeq(text, 1, last))
        ELSE Undefined

\* the block inserted by the migration
LegacyBlock(tags) ==
    Join(<<<<"~", "~", "~", "t", "a", "g", "-", "p", "a", "g", "e">>,
           <<"t", "a", "g", "s", ":", " ">> \o Join(tags, <<" ">>),
           <<"~", "~", "~">>, <<>>>>, <<"\n">>)

\* nextContent of migrateLegacyTagPage
MigratedContent(text, tags) ==
    LET frontmatterMatch == FrontmatterMatch(text)
        block == LegacyBlock(tags)
    IN  IF frontmatterMatch.defined
        THEN ReplaceFirst(text, frontmatterMatch.value,
                          frontmatterMatch.value \o <<"\n">> \o block
                              \o LEGACY_CONTENT_MARKER \o <<"\n">>)
        ELSE block \o LEGACY_CONTENT_MARKER \o <<"\n">> \o text

\* content.indexOf(LEGACY_CONTENT_MARKER), 0-based, or -1
MarkerIndex(text) ==
    LET at == {i \in 1..Len(text) : OccursAt(text, LEGACY_CONTENT_MARKER, i)}
    IN  IF at = {} THEN -1 ELSE (CHOOSE i \in at : \A k \in at : i <= k) - 1

CleanedContent_emptyNote(text) == <<"\n">>

\* content.slice(0, markerIndex).replace(/\s*$/, '\n')
CleanedContent(text) == TrimEnd(SubSeq(text, 1, MarkerIndex(text))) \o <<"\n">>

(***************************************************************************)
(* Specification SpecMigrate: a vault of a legacy tag page, a legacy page  *)
(* whose query holds no tag and an ordinary note; at most MaxCalls         *)
(* invocations, started by file-open events and by the clean-up command    *)
(* in any order and interleaved at their awaits.                           *)
(***************************************************************************)
MaxCalls == 4

PathLegacy == <<"L">>
PathNoTags == <<"K">>
PathNote == <<"N">>

LegacyPage ==
    <<"-", "-", "-", "\n">> \o LegacyKey \o <<":", " ", "a", ",", " ", "#", "b", "\n",
      "-", "-", "-", "\n", "o", "l", "d", "\n">>

NoTagsPage ==
    <<"-", "-", "-", "\n">> \o LegacyKey \o <<":", " ", ",", "\n",
      "-", "-", "-", "\n", "o", "l", "d", "\n">>

MigrateVault ==
    (PathLegacy :> LegacyPage) @@ (PathNoTags :> NoTagsPage) @@ (PathNote :> <<"n", "\n">>)

InitMigrate ==
    /\ tag = TagEmpty
    /\ settings = DefaultSettings
    /\ content = <<>>
    /\ ScanIdle
    /\ FetchIdle
    /\ scanFileLines = <<>>
    /\ lineIndex = 0
    /\ scan = BulletInit
    /\ title = <<>>
    /\ vaultFiles = MigrateVault
    /\ vaultFolders = {}
    /\ activeFile = <<>>
    /\ stat = <<>>
    /\ noteTags = <<>>
    /\ listed = FALSE
    /\ TaskIdle

Call(op, position, file, value, next) ==
    [op |-> op, pc |-> position, file |-> file, value |-> value, next |-> next]

FileOpen_noGuard(file) ==
    LET frontmatterValue == LegacyFrontmatterValue(vaultFiles[file])
        proceeds == frontmatterValue.defined /\ frontmatterValue.value # <<>>
    IN  /\ Len(calls) < MaxCalls
        /\ activeFile' = file
        /\ calls' = Append(calls,
                Call("migrate", IF proceeds THEN "read" ELSE "done", file,
                     frontmatterValue.value, <<>>))
        /\ legacyMigrationInProgress' =
                IF proceeds THEN legacyMigrationInProgress \cup {file}
                ELSE legacyMigrationInProgress
        /\ UNCHANGED <<tag, settings, scanVars, fetchVars, stepVars, title, vaultFiles,
                       vaultFolders, metaVars, vaultLog, sections>>

\* the file-open event: the file becomes the active one and the handler runs
\* migrateLegacyTagPage up to its first await
FileOpen(file) ==
    LET frontmatterValue == LegacyFrontmatterValue(vaultFiles[file])
        proceeds == /\ file \notin legacyMigrationInProgress
                    /\ frontmatterValue.defined
                    /\ frontmatterValue.value # <<>>
    IN  /\ Len(calls) < MaxCalls
        /\ activeFile' = file
        /\ calls' = Append(calls,
                Call("migrate", IF proceeds THEN "read" ELSE "done", file,
                     frontmatterValue.value, <<>>))
        /\ legacyMigrationInProgress' =
                IF proceeds THEN legacyMigrationInProgress \cup {file}
                ELSE legacyMigrationInProgress
        /\ UNCHANGED <<tag, settings, scanVars, fetchVars, stepVars, title, vaultFiles,
                       vaultFolders, metaVars, vaultLog, sections>>

\* migrateLegacyTagPage from the return of vault.read to the call of vault.modify
MigrateReadReturns(i) ==
    /\ calls[i].op = "migrate"
    /\ calls[i].pc = "read"
    /\ LET text == vaultFiles[calls[i].file]
           tags == normalizeLegacyTags(calls[i].value)
           returns == \/ HasTagPageBlock(text)
                      \/ Includes(text, LEGACY_CONTENT_MARKER)
                      \/ Len(tags) = 0
       IN  IF returns
           THEN /\ calls' = [calls EXCEPT ![i].pc = "done"]
                /\ legacyMigrationInProgress' = legacyMigrationInProgress \ {calls[i].file}
           ELSE /\ calls' = [calls EXCEPT ![i].pc = "modify",
                                          ![i].next = MigratedContent(text, tags)]
                /\ UNCHANGED legacyMigrationInProgress
    /\ UNCHANGED <<tag, settings, scanVars, fetchVars, stepVars, pageVars, metaVars,
                   vaultLog, sections>>

\* vault.modify is carried out and migrateLegacyTagPage runs to its end
MigrateModifyReturns(i) ==
    /\ calls[i].op = "migrate"
    /\ calls[i].pc = "modify"
    /\ vaultFiles' = [vaultFiles EXCEPT ![calls[i].file] = calls[i].next]
    /\ vaultLog' = Append(vaultLog, [op |-> "modify", path |-> calls[i].file, by |-> i])
    /\ calls' = [calls EXCEPT ![i].pc = "done"]
    /\ legacyMigrationInProgress' = legacyMigrationInProgress \ {calls[i].file}
    /\ UNCHANGED <<tag, settings, scanVars, fetchVars, stepVars, title, vaultFolders,
                   activeFile, metaVars, sections>>

\* the command: cleanupLegacyTagPageContent up to its first await
CleanupCommand ==
    /\ Len(calls) < MaxCalls
    /\ calls' = Append(calls,
            Call("cleanup", IF activeFile = <<>> THEN "done" ELSE "read", activeFile,
                 <<>>, <<>>))
    /\ UNCHANGED <<tag, settings, scanVars, fetchVars, stepVars, pageVars, metaVars,
                   legacyMigrationInProgress, vaultLog, sections>>

\* cleanupLegacyTagPageContent from the return of vault.read to the call of vault.modify
CleanupReadReturns(i) ==
    /\ calls[i].op = "cleanup"
    /\ calls[i].pc = "read"
    /\ LET text == vaultFiles[calls[i].file]
       IN  calls' = IF MarkerIndex(text) = -1
                    THEN [calls EXCEPT ![i].pc = "done"]
                    ELSE [calls EXCEPT ![i].pc = "modify", ![i].next = CleanedContent(text)]
    /\ UNCHANGED <<tag, settings, scanVars, fetchVars, stepVars, pageVars, metaVars,
                   legacyMigrationInProgress, vaultLog, sections>>

\* vault.modify is carried out and cleanupLegacyTagPageContent runs to its end
CleanupModifyReturns(i) ==
    /\ calls[i].op = "cleanup"
    /\ calls[i].pc = "modify"
    /\ vaultFiles' = [vaultFiles EXCEPT ![calls[i].file] = calls[i].next]
    /\ vaultLog' = Append(vaultLog, [op |-> "modify", path |-> calls[i].file, by |-> i])
    /\ calls' = [calls EXCEPT ![i].pc = "done"]
    /\ UNCHANGED <<tag, settings, scanVars, fetchVars, stepVars, title, vaultFolders,
                   activeFile, metaVars, legacyMigrationInProgress, sections>>

NextMigrate ==
    \/ \E file \in DOMAIN MigrateVault : FileOpen(file)
    \/ CleanupCommand
    \/ \E i \in 1..Len(calls) : MigrateReadReturns(i)
    \/ \E i \in 1..Len(calls) : MigrateModifyReturns(i)
    \/ \E i \in 1..Len(calls) : CleanupReadReturns(i)
    \/ \E i \in 1..Len(calls) : CleanupModifyReturns(i)

SpecMigrate == InitMigrate /\ [][NextMigrate]_vars

(***************************************************************************)
(* renderTagPageBlock and parseTagsFromBlock.  The element of the block is *)
(* the sequence `sections`: the message paragraph, or one section per tag  *)
(* in the order of creation.  A section holds the loading paragraph and a  *)
(* body: nothing, the rendered markdown or the failure paragraph.          *)
(***************************************************************************)
\* s.split(/\s+/).map(trim).filter(Boolean)
RECURSIVE SplitWhitespace(_, _)
SplitWhitespace(s, word) ==
    IF s = <<>> THEN (IF word = <<>> THEN <<>> ELSE <<word>>)
    ELSE IF IsSpace(Head(s))
    THEN (IF word = <<>> THEN <<>> ELSE <<word>>) \o SplitWhitespace(Tail(s), <<>>)
    ELSE SplitWhitespace(Tail(s), Append(word, Head(s)))

parseTagsFromBlock(source) ==
    LET lines == Split(source, "\n")
        isTagsLine(l) == StartsWith(ToLowerCase(Trim(l)), <<"t", "a", "g", "s", ":">>)
        found == {i \in 1..Len(lines) : isTagsLine(lines[i])}
    IN  IF found = {} THEN <<>>
        ELSE LET tagsLine == Trim(lines[CHOOSE i \in found : \A k \in found : i <= k])
                 words == SplitWhitespace(SubSeq(tagsLine, 6, Len(tagsLine)), <<>>)
             IN  Dedupe([i \in 1..Len(words) |->
                            IF StartsWith(words[i], <<"#">>) THEN words[i]
                            ELSE <<"#">> \o words[i]])

\* el.createEl('p', {text: 'No tags provided. ...'})
NoTagsMessage == [tag |-> <<>>, loading |-> FALSE, body |-> "no tags", text |-> <<>>]

\* container.createDiv(...) and tagSection.createEl('p', {text: 'Loading content ...'})
NewSection(t) == [tag |-> t, loading |-> TRUE, body |-> "none", text |-> <<>>]

\* tagSection.empty()
EmptySection(section) == [section EXCEPT !.loading = FALSE, !.body = "none", !.text = <<>>]

SectionAfterFailure_keepLoading(section) == [section EXCEPT !.body = "failed", !.text = <<>>]

\* catch and finally: the section is emptied, shows the failure paragraph, and
\* the loading paragraph is removed
SectionAfterFailure(section) ==
    [EmptySection(section) EXCEPT !.body = "failed", !.loading = FALSE]

\* renderMarkdown has resolved, then finally
SectionAfterRender(section, text) ==
    [section EXCEPT !.body = "markdown", !.text = text, !.loading = FALSE]

RenderCall(position, tags, index) ==
    [op |-> "render", pc |-> position, tags |-> tags, index |-> index]

(***************************************************************************)
(* Specification SpecRender: one tag-page block whose source names at most *)
(* MaxBlockTags tags, over a vault of one note; each of fetchTagData,      *)
(* generateTagPageContent and renderMarkdown either resolves or rejects.   *)
(***************************************************************************)
MaxBlockTags == 3

RenderWords == {TagA, <<"b">>, QueryAWild}

RenderSources ==
    {<<"t", "a", "g", "s", ":">> \o Join([i \in 1..Len(ws) |-> <<" ">> \o ws[i]], <<>>) :
        ws \in UNION {[1..n -> RenderWords] : n \in 0..MaxBlockTags}}
    \cup {<<"x", "\n">>,
          <<"T", "A", "G", "S", ":", " ">> \o TagB \o <<"\n", "t", "a", "g", "s", ":", " ">> \o TagA}

RenderVault == <<"n2">>

InitRender ==
    /\ tag = TagEmpty
    /\ content \in RenderSources
    /\ settings = DefaultSettings
    /\ ScanIdle
    /\ allFiles = RenderVault
    /\ vault = [f \in Range(RenderVault) |-> FileInfo[f].content]
    /\ pc = "idle"
    /\ pending = {}
    /\ completionOrder = <<>>
    /\ results = <<>>
    /\ tagsInfo = NoMap
    /\ markdown = <<>>
    /\ prevMarkdown = <<>>
    /\ renderCount = 0
    /\ AuxIdle

\* the head of the for loop for the tag at position index, up to the await of
\* fetchTagData; past the last tag the handler returns
RenderLoop(tags, index) ==
    IF index <= Len(tags)
    THEN /\ calls' = <<RenderCall("fetch", tags, index)>>
         /\ tag' = tags[index]
         /\ vaultLog' = Append(vaultLog, [op |-> "fetchTagData", path |-> tags[index], by |-> 1])
    ELSE /\ calls' = <<RenderCall("done", tags, index)>>
         /\ UNCHANGED <<tag, vaultLog>>

\* the code block processor calls renderTagPageBlock(source, el, ...)
RenderTagPageBlock ==
    /\ calls = <<>>
    /\ LET tags == parseTagsFromBlock(content)
       IN  /\ RenderLoop(tags, 1)
           /\ sections' = IF Len(tags) = 0 THEN <<NoTagsMessage>> ELSE <<NewSection(tags[1])>>
    /\ UNCHANGED <<settings, scanVars, fetchVars, stepVars, pageVars, metaVars,
                   legacyMigrationInProgress>>

\* catch, finally, and on to the next tag
RenderFails ==
    LET index == calls[1].index
        tags == calls[1].tags
        failed == [sections EXCEPT ![index] = SectionAfterFailure(@)]
    IN  /\ RenderLoop(tags, index + 1)
        /\ sections' = IF index + 1 <= Len(tags)
                       THEN Append(failed, NewSection(tags[index + 1]))
                       ELSE failed

\* the promise of fetchTagData settles
FetchSettles(ok) ==
    /\ calls # <<>>
    /\ calls[1].pc = "fetch"
    /\ IF ok
       THEN /\ tagsInfo' = MergeTagInfos(<<>>,
                    [i \in 1..Len(allFiles) |->
                        processFile(settings, FileInfo[allFiles[i]].basename,
                                    vault[allFiles[i]], tag)])
            /\ calls' = [calls EXCEPT ![1].pc = "generate"]
            /\ UNCHANGED <<tag, vaultLog, sections>>
       ELSE /\ RenderFails
            /\ UNCHANGED tagsInfo
    /\ UNCHANGED <<settings, scanVars, allFiles, vault, pc, pending, completionOrder, results,
                   markdown, prevMarkdown, renderCount, stepVars, pageVars, metaVars,
                   legacyMigrationInProgress>>

\* the promise of generateTagPageContent settles; tagSection.empty() and the
\* call of renderMarkdown follow
GenerateSettles(ok) ==
    /\ calls # <<>>
    /\ calls[1].pc = "generate"
    /\ IF ok
       THEN /\ markdown' = generateTagPageContent(settings, FileInfo, allFiles, tagsInfo, tag)
            /\ calls' = [calls EXCEPT ![1].pc = "render"]
            /\ sections' = [sections EXCEPT ![calls[1].index] = EmptySection(@)]
            /\ UNCHANGED <<tag, vaultLog>>
       ELSE /\ RenderFails
            /\ UNCHANGED markdown
    /\ UNCHANGED <<settings, scanVars, allFiles, vault, pc, pending, completionOrder, results,
                   tagsInfo, prevMarkdown, renderCount, stepVars, pageVars, metaVars,
                   legacyMigrationInProgress>>

\* the promise of renderMarkdown settles
RenderSettles(ok) ==
    /\ calls # <<>>
    /\ calls[1].pc = "render"
    /\ IF ok
       THEN LET index == calls[1].index
                tags == calls[1].tags
                shown == [sections EXCEPT ![index] = SectionAfterRender(@, markdown)]
            IN  /\ RenderLoop(tags, index + 1)
                /\ sections' = IF index + 1 <= Len(tags)
                               THEN Append(shown, NewSection(tags[index + 1]))
                               ELSE shown
       ELSE RenderFails
    /\ UNCHANGED <<settings, scanVars, fetchVars, stepVars, pageVars, metaVars,
                   legacyMigrationInProgress>>

NextRender ==
    \/ RenderTagPageBlock
    \/ \E ok \in BOOLEAN : FetchSettles(ok)
    \/ \E ok \in BOOLEAN : GenerateSettles(ok)
    \/ \E ok \in BOOLEAN : RenderSettles(ok)

SpecRender == InitRender /\ [][NextRender]_vars

(***************************************************************************)
(* Specification SpecOverlap: createTagPage step by step, one step from    *)
(* each await to the next, for at most MaxCalls invocations that may       *)
(* overlap.  The vault carries out createFolder and create when their      *)
(* promise settles, and rejects them when the path exists by then.  Each   *)
(* call of a vault operation is logged with whether its path existed when  *)
(* the call was made.                                                      *)
(***************************************************************************)
OverlapTags == {TagA, TagB}

PageCall(position, t, path) ==
    [op |-> "createTagPage", pc |-> position, tag |-> t, path |-> path]

\* the path of the tag page of a tag
TagPagePath(cfg, t) ==
    LET tagOfInterest == IF StartsWith(t, <<"#">>) THEN t ELSE <<"#">> \o t
        q == getIsWildCard(tagOfInterest)
    IN  cfg.tagPageDir \o generateFilename(q.cleanedTag, q.isWildCard, cfg.nestedSeparator)

InitOverlap ==
    /\ tag = TagEmpty
    /\ settings = CreateSettings
    /\ content = <<>>
    /\ ScanIdle
    /\ FetchIdle
    /\ scanFileLines = <<>>
    /\ lineIndex = 0
    /\ scan = BulletInit
    /\ title = <<>>
    /\ \E v \in InitialVaults : vaultFiles = v.files /\ vaultFolders = v.folders
    /\ activeFile = <<>>
    /\ stat = <<>>
    /\ noteTags = <<>>
    /\ listed = FALSE
    /\ TaskIdle

\* createTagPage up to its first await: the path lookup, then adapter.exists
\* or, for an existing page, openFile
CreateStarts(t) ==
    LET path == TagPagePath(settings, t)
    IN  /\ Len(calls) < MaxCalls
        /\ calls' = Append(calls,
                PageCall(IF path \in DOMAIN vaultFiles THEN "openFile" ELSE "exists", t, path))
        /\ UNCHANGED <<tag, settings, scanVars, fetchVars, stepVars, pageVars, metaVars,
                       legacyMigrationInProgress, vaultLog, sections>>

\* adapter.exists settles; createFolder or create is called
ExistsReturns(i) ==
    /\ calls[i].op = "createTagPage"
    /\ calls[i].pc = "exists"
    /\ LET dir == normalizePath(settings.tagPageDir)
           exists == dir \in vaultFolders
       IN  IF ~exists
           THEN /\ calls' = [calls EXCEPT ![i].pc = "createFolder"]
                /\ vaultLog' = Append(vaultLog,
                        [op |-> "createFolder", path |-> dir, by |-> i,
                         existed |-> dir \in vaultFolders])
           ELSE /\ calls' = [calls EXCEPT ![i].pc = "create"]
                /\ vaultLog' = Append(vaultLog,
                        [op |-> "create", path |-> calls[i].path, by |-> i,
                         existed |-> calls[i].path \in DOMAIN vaultFiles])
    /\ UNCHANGED <<tag, settings, scanVars, fetchVars, stepVars, pageVars, metaVars,
                   legacyMigrationInProgress, sections>>

\* createFolder settles: rejected when the folder exists, else create is called
CreateFolderReturns(i) ==
    /\ calls[i].op = "createTagPage"
    /\ calls[i].pc = "createFolder"
    /\ LET dir == normalizePath(settings.tagPageDir)
       IN  IF dir \in vaultFolders
           THEN /\ calls' = [calls EXCEPT ![i].pc = "rejected"]
                /\ UNCHANGED <<vaultFolders, vaultLog>>
           ELSE /\ vaultFolders' = vaultFolders \cup {dir}
                /\ calls' = [calls EXCEPT ![i].pc = "create"]
                /\ vaultLog' = Append(vaultLog,
                        [op |-> "create", path |-> calls[i].path, by |-> i,
                         existed |-> calls[i].path \in DOMAIN vaultFiles])
    /\ UNCHANGED <<tag, settings, scanVars, fetchVars, stepVars, title, vaultFiles,
                   activeFile, metaVars, legacyMigrationInProgress, sections>>

\* vault.create settles: rejected when the file exists, else openFile is called
CreateReturns(i) ==
    /\ calls[i].op = "createTagPage"
    /\ calls[i].pc = "create"
    /\ IF calls[i].path \in DOMAIN vaultFiles
       THEN /\ calls' = [calls EXCEPT ![i].pc = "rejected"]
            /\ UNCHANGED vaultFiles
       ELSE /\ vaultFiles' =
                    (calls[i].path :>
                        buildTagPageTemplate(IF StartsWith(calls[i].tag, <<"#">>)
                                             THEN calls[i].tag ELSE <<"#">> \o calls[i].tag))
                    @@ vaultFiles
            /\ calls' = [calls EXCEPT ![i].pc = "openFile"]
    /\ UNCHANGED <<tag, settings, scanVars, fetchVars, stepVars, title, vaultFolders,
                   activeFile, metaVars, legacyMigrationInProgress, vaultLog, sections>>

\* openFile settles and createTagPage returns
OpenFileReturns(i) ==
    /\ calls[i].op = "createTagPage"
    /\ calls[i].pc = "openFile"
    /\ activeFile' = calls[i].path
    /\ tag' = calls[i].tag
    /\ calls' = [calls EXCEPT ![i].pc = "done"]
    /\ UNCHANGED <<settings, scanVars, fetchVars, stepVars, title, vaultFiles, vaultFolders,
                   metaVars, legacyMigrationInProgress, vaultLog, sections>>

NextOverlap ==
    \/ \E t \in OverlapTags : CreateStarts(t)
    \/ \E i \in 1..Len(calls) : ExistsReturns(i)
    \/ \E i \in 1..Len(calls) : CreateFolderReturns(i)
    \/ \E i \in 1..Len(calls) : CreateReturns(i)
    \/ \E i \in 1..Len(calls) : OpenFileReturns(i)

SpecOverlap == InitOverlap /\ [][NextOverlap]_vars

(***************************************************************************)
(* Vocabulary of the properties.                                           *)
(***************************************************************************)
\* the whitespace-separated words of a text
RECURSIVE WordsFrom(_, _)
WordsFrom(s, cur) ==
    IF s = <<>> THEN (IF cur = <<>> THEN {} ELSE {cur})
    ELSE IF IsSpace(Head(s))
         THEN (IF cur = <<>> THEN {} ELSE {cur}) \cup WordsFrom(Tail(s), <<>>)
         ELSE WordsFrom(Tail(s), Append(cur, Head(s)))

WordsOf(s) == WordsFrom(s, <<>>)

TagWordsOf(s) == {w \in WordsOf(s) : Head(w) = "#"}

IsBulletText(s) == Len(s) >= 2 /\ s[1] = "-" /\ s[2] = " "

\* the texts a Map of the scanners holds, over all keys
AllTexts(m) == UNION {Range(m[i].val) : i \in 1..Len(m)}

\* t occurs in s followed by white space or by the end of s, ignoring case
WordBoundedOccurrence(s, t) ==
    \E i \in 1..Len(s) :
        /\ i + Len(t) - 1 <= Len(s)
        /\ \A k \in 1..Len(t) : Lower(s[i + k - 1]) = Lower(t[k])
        /\ (i + Len(t) > Len(s) \/ IsSpace(s[i + Len(t)]))

(***************************************************************************)
(* C2: for the wildcard query #a/* the three scanners match a text that    *)
(* contains #a, #a/b or #a/b/c and do not match a text whose only tag is   *)
(* #ab.                                                                    *)
(***************************************************************************)
C2_HasNested == TagWordsOf(content) \cap {TagA, TagA_B, TagA_B_C} # {}

C2_OnlyAB == TagWordsOf(content) = {TagAB}

C2_WildcardMatchesNestedNotPrefix ==
    tag = QueryAWild =>
        /\ "containsTag" \in called =>
            /\ C2_HasNested => hasTag
            /\ C2_OnlyAB => ~hasTag
        /\ "findSmallestUnitsContainingTag" \in called =>
            /\ (C2_HasNested /\ ~(excludeBullets /\ IsBulletText(content))) => units # <<>>
            /\ C2_OnlyAB => units = <<>>
        /\ "findBulletListsContainingTag" \in called =>
            /\ (C2_HasNested /\ IsBulletText(content)) => bullets # <<>>
            /\ C2_OnlyAB => bullets = <<>>

(***************************************************************************)
(* C3: for the exact query #a every unit findSmallestUnitsContainingTag    *)
(* returns holds an occurrence of the tag followed by white space or the   *)
(* end of the text, so a line whose only tag is #ab is never reported.     *)
(***************************************************************************)
C3_UnitsHoldWordBoundedTag ==
    (tag = TagA /\ "findSmallestUnitsContainingTag" \in called) =>
        \A u \in AllTexts(units) : WordBoundedOccurrence(u, TagA)

(***************************************************************************)
(* C4 (as stated): in bullets-only mode a tagged root bullet followed by   *)
(* more-indented untagged child bullets yields exactly one match entry,    *)
(* whose text is the root line and the child lines joined by line breaks.  *)
(***************************************************************************)
C4_Lines == NonEmptyLines(Split(content, "\n"))

C4_Tagged(line) ==
    BulletMatches(line, 1, getIsWildCard(tag).cleanedTag, getIsWildCard(tag).isWildCard) # <<>>

C4_RootWithChildren ==
    /\ Len(C4_Lines) >= 2
    /\ C4_Tagged(C4_Lines[1])
    /\ \A i \in 2..Len(C4_Lines) :
        /\ ~C4_Tagged(C4_Lines[i])
        /\ SearchNonSpace(C4_Lines[i]) > SearchNonSpace(C4_Lines[1])

C4_Case ==
    /\ "processFile" \in called
    /\ settings.bulletedSubItems /\ ~settings.includeLines
    /\ C4_RootWithChildren

C4_EntryTexts ==
    [i \in 1..Len(fileInfo[1].val) |-> fileInfo[1].val[i].stringContainingTag]

C4_WitnessTwoChildren ==
    /\ C4_Case
    /\ Len(C4_Lines) = 3
    /\ SearchNonSpace(C4_Lines[1]) = 2
    /\ Len(fileInfo[1].val) = 3

(***************************************************************************)
(* Vocabulary of the properties of SpecFetch.                              *)
(***************************************************************************)
\* the lines of the generated text
MdLines == Split(markdown, "\n")

IsSubheading(line) == StartsWith(line, <<"#", "#", "#", " ">>)

\* the variant keys of the subsections, in the order of the generated text
Subheadings ==
    LET hs == SelectSeq(MdLines, IsSubheading)
    IN  [i \in 1..Len(hs) |-> SubSeq(hs[i], 5, Len(hs[i]))]

\* position of an element in a sequence that holds it once
IndexOf(seq, x) == CHOOSE i \in 1..Len(seq) : seq[i] = x

CharOrder == <<"#", "/", "a", "b", "c", "e", "h", "j", "l", "o", "p", "r", "t">>

RECURSIVE LexLeq(_, _)
LexLeq(x, y) ==
    IF x = <<>> THEN TRUE
    ELSE IF y = <<>> THEN FALSE
    ELSE IF Head(x) = Head(y) THEN LexLeq(Tail(x), Tail(y))
    ELSE IndexOf(CharOrder, Head(x)) < IndexOf(CharOrder, Head(y))

\* the notes fetchTagData has started a processFile for
Scanned == pending \cup Range(completionOrder)

\* the TagInfo a scan of the notes one after the other, in the given order, yields
SequentialScan(files) ==
    LET kept == SelectSeq(files, LAMBDA f : ~(FileInfo[f].query.defined
                                              /\ FileInfo[f].query.value # <<>>))
    IN  MergeTagInfos(<<>>,
            [i \in 1..Len(kept) |->
                processFile(settings, FileInfo[kept[i]].basename,
                            FileInfo[kept[i]].content, tag)])

Reverse(seq) == [i \in 1..Len(seq) |-> seq[Len(seq) + 1 - i]]

\* position in the vault of the note a provenance link points to
LinkedPosition(link) ==
    CHOOSE i \in 1..Len(allFiles) : FileLink(FileInfo[allFiles[i]].basename) = link

(***************************************************************************)
(* C1: rendering the block a second time from an unchanged vault, tag and  *)
(* settings yields the same generated text as the first time, and the      *)
(* text of every note (the user's text around the block included) is what  *)
(* it was.                                                                 *)
(***************************************************************************)
C1_GeneratedTwice == renderCount >= 2 \/ (renderCount >= 1 /\ pc = "generated")

C1_RegenerationIsIdempotent ==
    C1_GeneratedTwice =>
        /\ markdown = prevMarkdown
        /\ vault = [f \in Range(allFiles) |-> FileInfo[f].content]

C1_Witness ==
    /\ renderCount = 2
    /\ tag = TagA
    /\ allFiles = <<"n3", "n1">>
    /\ Len(MdLines) > 1
    /\ markdown = prevMarkdown
    /\ Includes(vault["n3"], TagPageBlock \o <<"z", "\n">>)

(***************************************************************************)
(* C5 (as stated): with more than one variant key the subsections come in  *)
(* ascending order of key length and keys of equal length alphabetically;  *)
(* with exactly one key there is no subheading.                            *)
(***************************************************************************)
C5_Generated == pc = "generated"

C5_ByLengthThenAlphabet ==
    C5_Generated =>
        /\ Len(tagsInfo) > 1 =>
            /\ Range(Subheadings) = Range(MapKeys(tagsInfo))
            /\ Len(Subheadings) = Len(tagsInfo)
            /\ \A i, j \in 1..Len(Subheadings) :
                i < j => \/ Len(Subheadings[i]) < Len(Subheadings[j])
                         \/ /\ Len(Subheadings[i]) = Len(Subheadings[j])
                            /\ LexLeq(Subheadings[i], Subheadings[j])
        /\ Len(tagsInfo) = 1 => Subheadings = <<>>

(***************************************************************************)
(* C5 (amended): with more than one variant key the subsections come in    *)
(* ascending order of key length and keys of equal length in the order in  *)
(* which they were first inserted into the TagGroup; with exactly one key  *)
(* there is no subheading.                                                 *)
(***************************************************************************)
C5_ByLengthThenInsertion ==
    C5_Generated =>
        /\ Len(tagsInfo) > 1 =>
            /\ Range(Subheadings) = Range(MapKeys(tagsInfo))
            /\ Len(Subheadings) = Len(tagsInfo)
            /\ \A i, j \in 1..Len(Subheadings) :
                i < j => \/ Len(Subheadings[i]) < Len(Subheadings[j])
                         \/ /\ Len(Subheadings[i]) = Len(Subheadings[j])
                            /\ IndexOf(MapKeys(tagsInfo), Subheadings[i])
                                 < IndexOf(MapKeys(tagsInfo), Subheadings[j])
        /\ Len(tagsInfo) = 1 => Subheadings = <<>>

C5_Witness ==
    /\ C5_Generated
    /\ MapKeys(tagsInfo) = <<TagA_C, TagA, TagA_B>>
    /\ Subheadings = <<TagA, TagA_C, TagA_B>>

(***************************************************************************)
(* C6 (as stated): with one note matching #project/alpha and one matching  *)
(* #project/beta under the query #project/*, the text has a subsection for *)
(* each, #project/alpha before #project/beta.                              *)
(***************************************************************************)
C6_Case ==
    /\ pc = "generated"
    /\ tag = QueryProjectWild
    /\ {"n4", "n5"} \subseteq Range(allFiles)
    /\ Range(MapKeys(tagsInfo)) = {TagAlpha, TagBeta}

C6_AlphaBeforeBeta ==
    C6_Case =>
        /\ Range(Subheadings) = {TagAlpha, TagBeta}
        /\ IndexOf(Subheadings, TagAlpha) < IndexOf(Subheadings, TagBeta)

(***************************************************************************)
(* C6 (amended): with one note matching #project/alpha and one matching    *)
(* #project/beta under the query #project/*, the text has a subsection for *)
(* each, #project/beta (the shorter key) before #project/alpha, whatever   *)
(* the order of the two notes in the vault.                                *)
(***************************************************************************)
C6_BetaBeforeAlpha ==
    C6_Case =>
        /\ Range(Subheadings) = {TagAlpha, TagBeta}
        /\ IndexOf(Subheadings, TagBeta) < IndexOf(Subheadings, TagAlpha)

C6_Witness ==
    /\ C6_Case
    /\ allFiles = <<"n4", "n5">>
    /\ Subheadings = <<TagBeta, TagAlpha>>

(***************************************************************************)
(* C7: whatever the order in which the reads of the notes return, the      *)
(* TagGroup fetchTagData resolves to is the one a scan of the notes one    *)
(* after the other in corpus order yields: the matches of each key are in  *)
(* corpus order, and a scan in reversed corpus order yields the same keys  *)
(* with the same set of matches each.                                      *)
(***************************************************************************)
C7_DeterministicMerge ==
    pc = "fetched" =>
        /\ tagsInfo = SequentialScan(allFiles)
        /\ \A k \in 1..Len(tagsInfo) :
            \A i, j \in 1..Len(tagsInfo[k].val) :
                i < j => LinkedPosition(tagsInfo[k].val[i].fileLink)
                            <= LinkedPosition(tagsInfo[k].val[j].fileLink)
        /\ LET reversed == SequentialScan(Reverse(allFiles))
           IN  /\ Range(MapKeys(reversed)) = Range(MapKeys(tagsInfo))
               /\ \A k \in 1..Len(tagsInfo) :
                    Range(MapGet(reversed, tagsInfo[k].key)) = Range(tagsInfo[k].val)

C7_Witness ==
    /\ pc = "fetched"
    /\ allFiles = <<"n1", "n2">>
    /\ completionOrder = <<"n2", "n1">>
    /\ tag = QueryAWild
    /\ \E k \in 1..Len(tagsInfo) :
        {tagsInfo[k].val[i].fileLink : i \in 1..Len(tagsInfo[k].val)}
            = {FileLink(<<"n", "1">>), FileLink(<<"n", "2">>)}

(***************************************************************************)
(* C8 (as stated): fetchTagData leaves a note out of the scan when, and    *)
(* only when, the note is a generated tag page for the tag of the query;   *)
(* tag pages generated for another tag are scanned.                        *)
(***************************************************************************)
C8_ExcludesOnlySameTagPage ==
    pc = "reading" =>
        \A f \in Range(allFiles) :
            f \notin Scanned <=>
                (FileInfo[f].query.defined /\ FileInfo[f].query.value = tag)

(***************************************************************************)
(* C8 (amended): fetchTagData leaves a note out of the scan when, and only *)
(* when, the note is a generated tag page for any tag (its front matter    *)
(* holds a non-empty value under the tag-page query key); ordinary notes   *)
(* are scanned, and no match of the resulting TagGroup comes from a tag    *)
(* page, so a tag page's output never contains generated content.          *)
(***************************************************************************)
C8_IsGeneratedTagPage(f) ==
    FileInfo[f].query.defined /\ Len(FileInfo[f].query.value) > 0

C8_ExcludesEveryTagPage ==
    /\ pc = "reading" =>
        \A f \in Range(allFiles) : f \notin Scanned <=> C8_IsGeneratedTagPage(f)
    /\ pc = "fetched" =>
        \A k \in 1..Len(tagsInfo) : \A i \in 1..Len(tagsInfo[k].val) :
            ~C8_IsGeneratedTagPage(allFiles[LinkedPosition(tagsInfo[k].val[i].fileLink)])

C8_Witness ==
    /\ pc = "reading"
    /\ tag = TagA
    /\ allFiles = <<"p2", "n5">>
    /\ Scanned = {"n5"}

(***************************************************************************)
(* C10: in the generated text a captured descendant line (an entry that    *)
(* starts with indentation) carries no provenance link, and every other    *)
(* match line is a bullet with exactly one link: at the end of the line    *)
(* when linkAtEnd is set, right after the bullet marker otherwise.  This   *)
(* covers the root lines of bullet subtrees and the prose matches, which   *)
(* are wrapped in a new bullet.                                            *)
(***************************************************************************)
C10_IsFrontmatterHeading(line) == StartsWith(line, <<"#", "#", " ", "F", "i", "l", "e", "s">>)

\* the match lines: after the title, without subheadings, up to the list of
\* the files tagged in their front matter
C10_MatchLines ==
    LET cut == IF \E i \in 1..Len(MdLines) : C10_IsFrontmatterHeading(MdLines[i])
               THEN (CHOOSE i \in 1..Len(MdLines) : C10_IsFrontmatterHeading(MdLines[i])) - 1
               ELSE Len(MdLines)
    IN  {MdLines[i] : i \in {j \in 2..cut : ~IsSubheading(MdLines[j])}}

C10_Open == <<"[", "[">>

C10_LinkPlaced(line) ==
    \E f \in Range(allFiles) :
        LET link == FileLink(FileInfo[f].basename)
        IN  IF settings.linkAtEnd
            THEN /\ Len(line) > Len(link) + 3
                 /\ SubSeq(line, 1, 2) = <<"-", " ">>
                 /\ SubSeq(line, Len(line) - Len(link), Len(line)) = <<" ">> \o link
                 /\ ~Includes(SubSeq(line, 1, Len(line) - Len(link)), C10_Open)
            ELSE /\ Len(line) > Len(link) + 3
                 /\ SubSeq(line, 1, Len(link) + 3) = <<"-", " ">> \o link \o <<" ">>
                 /\ ~Includes(SubSeq(line, Len(link) + 3, Len(line)), C10_Open)

C10_LinkOnRootLineOnly ==
    pc = "generated" =>
        \A line \in C10_MatchLines :
            IF IsSpace(line[1])
            THEN ~Includes(line, C10_Open)
            ELSE C10_LinkPlaced(line)

C10_Witness ==
    /\ pc = "generated"
    /\ ~settings.linkAtEnd
    /\ settings.bulletedSubItems
    /\ <<"-", " ">> \o FileLink(<<"n", "1">>) \o <<" ", "r", " ">> \o TagA \in C10_MatchLines
    /\ <<" ", " ", "-", " ", "c">> \in C10_MatchLines
    /\ <<"-", " ">> \o FileLink(<<"n", "2">>) \o <<" ", "w", " ">> \o TagA \in C10_MatchLines

C10_WitnessLinkAtEnd ==
    /\ pc = "generated"
    /\ settings.linkAtEnd
    /\ <<"-", " ", "r", " ">> \o TagA \o <<" ">> \o FileLink(<<"n", "1">>) \in C10_MatchLines
    /\ <<" ", " ", "-", " ", "c">> \in C10_MatchLines

(***************************************************************************)
(* Vocabulary of the properties of SpecNote.                               *)
(***************************************************************************)
\* the lines of the note handed to processFile
NoteContentLines == Split(content, "\n")

\* number of lines of the note that are the text t up to outer whitespace
LinesEqualTo(t) ==
    Cardinality({j \in 1..Len(NoteContentLines) : Trim(NoteContentLines[j]) = Trim(t)})

\* number of matches reported under one key with the text t
EntriesEqualTo(details, t) ==
    Cardinality({j \in 1..Len(details) : details[j].stringContainingTag = t})

\* every text reported by processFile, under any key
ReportedTexts ==
    UNION {{fileInfo[k].val[j].stringContainingTag : j \in 1..Len(fileInfo[k].val)} :
            k \in 1..Len(fileInfo)}

ProperQueries == {TagA, TagUpperA, QueryAWild}

(***************************************************************************)
(* C11: with includeLines and bulletedSubItems both enabled, processFile   *)
(* reports no line of the note twice under one variant key: a text is      *)
(* reported at most as many times as the note has lines with that text,    *)
(* and a tagged bullet line exactly once per line (by the bullet scanner   *)
(* only, never also as a unit).                                            *)
(***************************************************************************)
C11_Case ==
    /\ "processFile" \in called
    /\ settings.bulletedSubItems
    /\ settings.includeLines
    /\ tag \in ProperQueries

C11_NoLineReportedTwice ==
    C11_Case =>
        \A k \in 1..Len(fileInfo) : \A j \in 1..Len(fileInfo[k].val) :
            LET t == fileInfo[k].val[j].stringContainingTag
            IN  /\ EntriesEqualTo(fileInfo[k].val, t) <= LinesEqualTo(t)
                /\ StartsWith(t, <<"-", " ">>) =>
                        EntriesEqualTo(fileInfo[k].val, t) = LinesEqualTo(t)

C11_Witness ==
    /\ C11_Case
    /\ tag = TagA
    /\ content = <<"x", " ">> \o TagA \o <<"\n", "-", " ", "r", " ">> \o TagA \o <<"\n">>
    /\ Len(fileInfo) = 1
    /\ [j \in 1..2 |-> fileInfo[1].val[j].stringContainingTag]
         = << <<"x", " ">> \o TagA, <<"-", " ", "r", " ">> \o TagA >>

(***************************************************************************)
(* C12 (as stated): a note whose text ends with the query tag, with no     *)
(* line break or other whitespace after it, scanned with lines enabled,    *)
(* yields a match holding its last line: processFile does not return an    *)
(* empty result for it.                                                    *)
(***************************************************************************)
C12_TagIsLastToken ==
    /\ "processFile" \in called
    /\ settings.includeLines
    /\ ~settings.bulletedSubItems
    /\ tag \in ProperQueries
    /\ EndsWith(ToLowerCase(content), ToLowerCase(getIsWildCard(tag).cleanedTag))

C12_LastTokenYieldsUnit ==
    C12_TagIsLastToken =>
        /\ fileInfo # <<>>
        /\ Trim(NoteContentLines[Len(NoteContentLines)]) \in ReportedTexts

(***************************************************************************)
(* C13 (as stated): for the empty tag and for a tag that is only the       *)
(* marker and/or the wildcard suffix, processFile reports no match for     *)
(* any note, so the TagGroup is empty.                                     *)
(***************************************************************************)
C13_DegenerateQueries == {TagEmpty, TagOnlyWild, TagHash, TagHashWild}

C13_DegenerateTagYieldsNothing ==
    ("processFile" \in called /\ tag \in C13_DegenerateQueries) => fileInfo = <<>>

(***************************************************************************)
(* C18 (as stated): the query tag is compared without regard to case in    *)
(* the pre-filter, the unit and bullet scanners and the front-matter       *)
(* comparison: for the queries #a, #A and #a/*, a note with the tag in     *)
(* either case passes containsTag when white space follows the tag, every  *)
(* line scanned in the configured mode is reported in its original case    *)
(* under the key #a, and a front-matter tag a or A is listed.              *)
(***************************************************************************)
C18_LineIsScanned(line) ==
    IF StartsWith(Trim(line), <<"-", " ">>)
    THEN TRUE
    ELSE settings.includeLines \/ ~settings.bulletedSubItems

C18_CaseInsensitiveEverywhere ==
    tag \in ProperQueries =>
        /\ "containsTag" \in called =>
                (hasTag <=> \/ tag = QueryAWild
                            \/ \E i \in 1..Len(content) : IsSpace(content[i])
                                                          /\ i > 1
                                                          /\ Lower(content[i - 1]) = "a")
        /\ ("processFile" \in called /\ fileInfo # <<>>) =>
                /\ MapKeys(fileInfo) = <<TagA>>
                /\ \A j \in 1..Len(NoteContentLines) :
                        (NoteContentLines[j] # <<>> /\ C18_LineIsScanned(NoteContentLines[j]))
                            => Trim(NoteContentLines[j]) \in ReportedTexts
        /\ "matchesTagOfInterest" \in called => listed

(***************************************************************************)
(* C14: the generated text ends with the section "Files with <tag> in      *)
(* frontmatter" listing, in vault order, exactly the notes with a          *)
(* front-matter tag equal to the query tag (exact query) or equal to the   *)
(* root or nested under it, root followed by "/" (wildcard query); a tag   *)
(* that only has the root as a prefix does not qualify, and there is no    *)
(* such section when no note qualifies.                                    *)
(***************************************************************************)
C14_Root == IF EndsWith(tag, WildcardSuffix) THEN SubSeq(tag, 1, Len(tag) - 2) ELSE tag

C14_TagQualifies(t) ==
    LET full == <<"#">> \o t
    IN  IF EndsWith(tag, WildcardSuffix)
        THEN \/ full = C14_Root
             \/ /\ Len(full) > Len(C14_Root)
                /\ SubSeq(full, 1, Len(C14_Root) + 1) = C14_Root \o <<"/">>
        ELSE full = tag

C14_NoteQualifies(f) ==
    /\ FileInfo[f].tags.defined
    /\ \E i \in 1..Len(FileInfo[f].tags.value) : C14_TagQualifies(FileInfo[f].tags.value[i])

C14_Expected ==
    LET notes == SelectSeq(allFiles, C14_NoteQualifies)
    IN  [i \in 1..Len(notes) |-> <<"-", " ", "[", "[">> \o FileInfo[notes[i]].basename \o <<"]", "]">>]

C14_HeadingAt == {i \in 1..Len(MdLines) : C10_IsFrontmatterHeading(MdLines[i])}

C14_FrontmatterSectionIsExact ==
    pc = "generated" =>
        IF C14_Expected = <<>>
        THEN C14_HeadingAt = {}
        ELSE /\ Cardinality(C14_HeadingAt) = 1
             /\ \A h \in C14_HeadingAt :
                    /\ MdLines[h] = <<"#", "#", " ", "F", "i", "l", "e", "s", " ", "w", "i", "t", "h", " ">>
                                    \o C14_Root
                                    \o <<" ", "i", "n", " ", "f", "r", "o", "n", "t", "m", "a", "t", "t", "e", "r">>
                    /\ SubSeq(MdLines, h + 1, Len(MdLines)) = C14_Expected

C14_Witness ==
    /\ pc = "generated"
    /\ tag = QueryAWild
    /\ allFiles = <<"p2", "n2">>
    /\ C14_Expected = << <<"-", " ", "[", "[", "p", "2", "]", "]">> >>
    /\ MdLines[Len(MdLines)] = <<"-", " ", "[", "[", "p", "2", "]", "]">>

C14_WitnessOmitted ==
    /\ pc = "generated"
    /\ tag = TagA
    /\ allFiles = <<"n2", "p2">>
    /\ C14_HeadingAt = {}

(***************************************************************************)
(* C15: after the sort by date each group's list is ordered by the         *)
(* creation time of the source note in the configured direction, matches   *)
(* with equal creation times keep corpus processing order, and the pass    *)
(* only reorders the merged lists: the keys and their order are those of   *)
(* the merge, and the matches of one note keep their relative order.       *)
(***************************************************************************)
C15_Time(detail) == stat[allFiles[LinkedPosition(detail.fileLink)]]

C15_FromNote(details, f) ==
    SelectSeq(details, LAMBDA d : d.fileLink = FileLink(FileInfo[f].basename))

C15_WitnessTie ==
    /\ pc = "sorted"
    /\ allFiles = <<"n1", "n2">>
    /\ stat["n1"] = stat["n2"]
    /\ tag = TagA
    /\ tagsInfo[1].val[1].fileLink = FileLink(<<"n", "1">>)

(***************************************************************************)
(* C16: a call of createTagPage opens the file at the tag's path; when a   *)
(* file is already there nothing in the vault is created or changed, and   *)
(* otherwise exactly that one file is added, holding the tag-page block    *)
(* for the tag with its marker, while every other file keeps its text.     *)
(* Hence after any sequence of calls the page of the last tag exists, is   *)
(* the opened file, and holds what the call that created it wrote (or the  *)
(* text it had before the first call).                                     *)
(***************************************************************************)
C16_PathOf(t) ==
    CASE t \in {<<"a">>, TagA} -> <<"T", "a", "g", "s", "/", "a", "_", "T", "a", "g", "s", ".", "m", "d">>
      [] t \in {QueryAWild, <<"a", "/", "*">>} -> <<"T", "a", "g", "s", "/", "a", "_", "n", "e", "s", "t", "e", "d", "_", "T", "a", "g", "s", ".", "m", "d">>
      [] t \in {TagA_B, <<"#", "a", "_", "b">>} -> <<"T", "a", "g", "s", "/", "a", "_", "b", "_", "T", "a", "g", "s", ".", "m", "d">>
      [] t = TagB -> <<"T", "a", "g", "s", "/", "b", "_", "T", "a", "g", "s", ".", "m", "d">>

C16_BlockOf(t) ==
    <<"~", "~", "~", "t", "a", "g", "-", "p", "a", "g", "e", "\n", "t", "a", "g", "s", ":", " ">>
    \o (IF Head(t) = "#" THEN t ELSE <<"#">> \o t)
    \o <<"\n", "~", "~", "~", "\n">>

C16_Call ==
    LET path == C16_PathOf(tag')
    IN  IF path \in DOMAIN vaultFiles
        THEN /\ vaultFiles' = vaultFiles
             /\ vaultFolders' = vaultFolders
             /\ activeFile' = path
        ELSE /\ DOMAIN vaultFiles' = DOMAIN vaultFiles \cup {path}
             /\ \A p \in DOMAIN vaultFiles : vaultFiles'[p] = vaultFiles[p]
             /\ vaultFiles'[path] = C16_BlockOf(tag')
             /\ activeFile' = path

C16_AfterCalls ==
    tag \in CreateTags =>
        /\ C16_PathOf(tag) \in DOMAIN vaultFiles
        /\ activeFile = C16_PathOf(tag)
        /\ vaultFiles[C16_PathOf(tag)] \in
                {C16_BlockOf(t) : t \in {u \in CreateTags : C16_PathOf(u) = C16_PathOf(tag)}}
                \cup {EditedPage}

C16_CreatesOnceThenNavigates == [][C16_Call]_vars /\ []C16_AfterCalls

C16_Witness ==
    /\ tag = <<"a">>
    /\ activeFile = PathA
    /\ vaultFiles[PathA] = TagPageBlock
    /\ Cardinality(DOMAIN vaultFiles) = 3

C16_WitnessExisting ==
    /\ tag = TagA
    /\ activeFile = PathA
    /\ vaultFiles[PathA] = EditedPage
    /\ Cardinality(DOMAIN vaultFiles) = 1

(***************************************************************************)
(* C17: with an empty title template resolveTagPageTitle returns the       *)
(* title it returns for the template "Tag Content for {{tag}}": in both    *)
(* cases the heading "## Tag Content for " followed by the tag without the *)
(* "*" of a wildcard suffix, which holds the tag (the root of a wildcard). *)
(***************************************************************************)
C17_TagText == IF tag[Len(tag)] = "*" THEN SubSeq(tag, 1, Len(tag) - 1) ELSE tag

C17_TagRoot == IF tag[Len(tag)] = "*" THEN SubSeq(tag, 1, Len(tag) - 2) ELSE tag

C17_Case ==
    /\ "resolveTagPageTitle" \in called
    /\ settings.tagPageTitleTemplate \in {<<>>, DefaultTitleTemplate}

C17_WitnessDefault ==
    /\ C17_Case
    /\ settings.tagPageTitleTemplate = DefaultTitleTemplate
    /\ tag = QueryAWild
    /\ title = <<"#", "#", " ", "T", "a", "g", " ", "C", "o", "n", "t", "e", "n", "t", " ",
                 "f", "o", "r", " ", "#", "a", "/">>

(***************************************************************************)
(* Vocabulary of the properties of SpecSubtree, stated on the lines the    *)
(* scan has handled and not on the locals of the scanner.                  *)
(***************************************************************************)
SubtreeIsBullet(line) == IsBulletText(Trim(line))

SubtreeIndent(line) == Len(line) - Len(TrimStart(line))

\* the variant keys of the query found on a line
SubtreeVariantsOn(line) ==
    IF EndsWith(tag, WildcardSuffix)
    THEN LET root == SubSeq(tag, 1, Len(tag) - 2)
         IN  {w \in WordsOf(line) :
                \/ w = root
                \/ (Len(w) > Len(root) + 1 /\ SubSeq(w, 1, Len(root) + 1) = root \o <<"/">>)}
    ELSE {w \in WordsOf(line) : w = tag}

SubtreeTagged(line) == SubtreeIsBullet(line) /\ SubtreeVariantsOn(line) # {}

\* the root lines whose subtree is open after n lines: a tagged bullet with
\* only deeper untagged bullets (or prose) after it
SubtreeOpenRoots(n) ==
    {r \in 1..n :
        /\ SubtreeTagged(scanFileLines[r])
        /\ \A j \in (r + 1)..n :
            SubtreeIsBullet(scanFileLines[j]) =>
                /\ ~SubtreeTagged(scanFileLines[j])
                /\ SubtreeIndent(scanFileLines[j]) > SubtreeIndent(scanFileLines[r])}

\* the variants of the open subtree after n lines
SubtreeActiveVariants(n) ==
    UNION {SubtreeVariantsOn(scanFileLines[r]) : r \in SubtreeOpenRoots(n)}

SubtreeCaptured(st, k) ==
    IF MapHas(st.capturedBulletLists, k) THEN MapGet(st.capturedBulletLists, k) ELSE <<>>

SubtreeKeys(st) == Range(MapKeys(st.capturedBulletLists))

\* the step handles the line `line`
SubtreeHandles(line) ==
    /\ lineIndex' = lineIndex + 1
    /\ scanFileLines[lineIndex + 1] = line

(***************************************************************************)
(* C19: when the scan handles an untagged bullet line that is deeper than  *)
(* the root of the open subtree, the line is appended as written to the    *)
(* captured list of every variant matched on that root line and to no      *)
(* other list.                                                             *)
(***************************************************************************)
C19_SubItem(line) ==
    /\ SubtreeHandles(line)
    /\ SubtreeIsBullet(line)
    /\ ~SubtreeTagged(line)
    /\ \E r \in SubtreeOpenRoots(lineIndex) :
            SubtreeIndent(line) > SubtreeIndent(scanFileLines[r])

C19_Step ==
    \A line \in SubtreeLines :
        C19_SubItem(line) =>
            /\ SubtreeActiveVariants(lineIndex) # {}
            /\ SubtreeActiveVariants(lineIndex) \subseteq SubtreeKeys(scan)
            /\ SubtreeKeys(scan') = SubtreeKeys(scan)
            /\ \A k \in SubtreeKeys(scan) :
                    SubtreeCaptured(scan', k) =
                        IF k \in SubtreeActiveVariants(lineIndex)
                        THEN Append(SubtreeCaptured(scan, k), line)
                        ELSE SubtreeCaptured(scan, k)

C19_SubItemGoesToActiveVariants == [][C19_Step]_vars

C19_Witness ==
    /\ tag = QueryAWild
    /\ lineIndex = 3
    /\ scanFileLines[1] = <<"-", " ", "r", " ">> \o TagA
    /\ scanFileLines[2] = <<"-", " ", "m", " ">> \o TagA \o <<" ">> \o TagA_B
    /\ scanFileLines[3] = <<" ", " ", "-", " ", "c">>
    /\ SubtreeCaptured(scan, TagA) =
            << <<"-", " ", "r", " ">> \o TagA,
               <<"-", " ", "m", " ">> \o TagA \o <<" ">> \o TagA_B,
               <<" ", " ", "-", " ", "c">> >>
    /\ SubtreeCaptured(scan, TagA_B) =
            << <<"-", " ", "m", " ">> \o TagA \o <<" ">> \o TagA_B,
               <<" ", " ", "-", " ", "c">> >>

C19_WitnessOtherVariant ==
    /\ tag = QueryAWild
    /\ lineIndex = 3
    /\ scanFileLines[1] = <<"-", " ", "m", " ">> \o TagA \o <<" ">> \o TagA_B
    /\ scanFileLines[2] = <<"-", " ", "r", " ">> \o TagA
    /\ scanFileLines[3] = <<" ", " ", "-", " ", "c">>
    /\ Len(SubtreeCaptured(scan, TagA)) = 3
    /\ Len(SubtreeCaptured(scan, TagA_B)) = 1

(***************************************************************************)
(* C20: an untagged bullet line at or below the indentation of the open    *)
(* root closes the subtree: that line and every untagged line handled      *)
(* while no subtree is open leave every captured list as it is, until a    *)
(* tagged bullet line opens a subtree by being captured, trimmed, under    *)
(* each of its variants.  No captured line is ever dropped, and the Map    *)
(* returned at the end of the document is the one built so far, open       *)
(* subtree included.                                                       *)
(***************************************************************************)
C20_ClosedOrClosing(line) ==
    /\ SubtreeHandles(line)
    /\ ~SubtreeTagged(line)
    /\ \/ SubtreeOpenRoots(lineIndex) = {}
       \/ /\ SubtreeIsBullet(line)
          /\ \A r \in SubtreeOpenRoots(lineIndex) :
                SubtreeIndent(line) <= SubtreeIndent(scanFileLines[r])

C20_Step ==
    /\ \A line \in SubtreeLines :
        /\ C20_ClosedOrClosing(line) =>
                /\ scan'.capturedBulletLists = scan.capturedBulletLists
                /\ SubtreeOpenRoots(lineIndex + 1) = {}
        /\ (SubtreeHandles(line) /\ SubtreeTagged(line)) =>
                /\ SubtreeOpenRoots(lineIndex + 1) = {lineIndex + 1}
                /\ \A k \in SubtreeVariantsOn(line) :
                        SubtreeCaptured(scan', k) = Append(SubtreeCaptured(scan, k), Trim(line))
    /\ \A k \in SubtreeKeys(scan) :
            /\ Len(SubtreeCaptured(scan', k)) >= Len(SubtreeCaptured(scan, k))
            /\ SubSeq(SubtreeCaptured(scan', k), 1, Len(SubtreeCaptured(scan, k)))
                    = SubtreeCaptured(scan, k)

C20_Returned ==
    "findBulletListsContainingTag" \in called =>
        /\ lineIndex = Len(scanFileLines)
        /\ bullets = scan.capturedBulletLists

C20_UntaggedShallowBulletCloses == [][C20_Step]_vars /\ []C20_Returned

C20_Witness ==
    /\ tag = TagA
    /\ lineIndex = 3
    /\ scanFileLines[1] = <<"-", " ", "r", " ">> \o TagA
    /\ scanFileLines[2] = <<"-", " ", "c">>
    /\ scanFileLines[3] = <<" ", " ", "-", " ", "c">>
    /\ SubtreeCaptured(scan, TagA) = << <<"-", " ", "r", " ">> \o TagA >>

C20_WitnessOpenAtEnd ==
    /\ "findBulletListsContainingTag" \in called
    /\ tag = TagA
    /\ scanFileLines = << <<"-", " ", "r", " ">> \o TagA, <<" ", " ", "-", " ", "c">> >>
    /\ MapGet(bullets, TagA) = << <<"-", " ", "r", " ">> \o TagA, <<" ", " ", "-", " ", "c">> >>

(***************************************************************************)
(* C21: when the scan has returned, for every tagged bullet line (a root)  *)
(* and every bullet line that is more indented than the root and lies      *)
(* before the next bullet line at or below the root's indentation, the     *)
(* line is held by the captured list of every variant of the root, also    *)
(* when a tagged descendant stands between the root and the line.          *)
(***************************************************************************)
\* the first bullet line after r at or below the indentation of r
C21_SubtreeEnd(r) ==
    LET closing == {j \in (r + 1)..Len(scanFileLines) :
                        /\ SubtreeIsBullet(scanFileLines[j])
                        /\ SubtreeIndent(scanFileLines[j]) <= SubtreeIndent(scanFileLines[r])}
    IN  IF closing = {} THEN Len(scanFileLines) + 1
        ELSE CHOOSE j \in closing : \A i \in closing : j <= i

C21_Holds(k, line) ==
    /\ MapHas(bullets, k)
    /\ \E i \in 1..Len(MapGet(bullets, k)) : Trim(MapGet(bullets, k)[i]) = Trim(line)

C21_WholeSubtreeCaptured ==
    "findBulletListsContainingTag" \in called =>
        \A r \in 1..Len(scanFileLines) :
            SubtreeTagged(scanFileLines[r]) =>
                \A j \in (r + 1)..(C21_SubtreeEnd(r) - 1) :
                    SubtreeIsBullet(scanFileLines[j]) =>
                        \A k \in SubtreeVariantsOn(scanFileLines[r]) :
                            C21_Holds(k, scanFileLines[j])

(***************************************************************************)
(* C22: when the scan has returned, a line that is not a bullet, is more   *)
(* indented than a tagged bullet line above it and is separated from it    *)
(* only by lines more indented than that bullet, is held by the captured   *)
(* list of every variant of that bullet.                                   *)
(***************************************************************************)
C22_Beneath(r, j) ==
    /\ r < j
    /\ SubtreeTagged(scanFileLines[r])
    /\ ~SubtreeIsBullet(scanFileLines[j])
    /\ \A i \in (r + 1)..j :
            SubtreeIndent(scanFileLines[i]) > SubtreeIndent(scanFileLines[r])

C22_ContinuationLineCaptured ==
    "findBulletListsContainingTag" \in called =>
        \A r, j \in 1..Len(scanFileLines) :
            C22_Beneath(r, j) =>
                \A k \in SubtreeVariantsOn(scanFileLines[r]) :
                    C21_Holds(k, scanFileLines[j])

(***************************************************************************)
(* C23: when findBulletListsContainingTag has returned, a tagged bullet at *)
(* indentation r directly followed by an untagged bullet at indentation    *)
(* c > r is captured, under every variant of the root, as the root line at *)
(* indentation 0 followed by the descendant at indentation c - r.          *)
(***************************************************************************)
C23_Lines == NonEmptyLines(Split(content, "\n"))

C23_RootAndChild(r) ==
    /\ r + 1 <= Len(C23_Lines)
    /\ SubtreeTagged(C23_Lines[r])
    /\ SubtreeIsBullet(C23_Lines[r + 1])
    /\ ~SubtreeTagged(C23_Lines[r + 1])
    /\ SubtreeIndent(C23_Lines[r + 1]) > SubtreeIndent(C23_Lines[r])

C23_Relative(r) ==
    Spaces(SubtreeIndent(C23_Lines[r + 1]) - SubtreeIndent(C23_Lines[r]))
        \o Trim(C23_Lines[r + 1])

C23_RelativeIndentation ==
    "findBulletListsContainingTag" \in called =>
        \A r \in 1..Len(C23_Lines) :
            C23_RootAndChild(r) =>
                \A k \in SubtreeVariantsOn(C23_Lines[r]) :
                    /\ MapHas(bullets, k)
                    /\ \E i \in 1..(Len(MapGet(bullets, k)) - 1) :
                            /\ MapGet(bullets, k)[i] = Trim(C23_Lines[r])
                            /\ MapGet(bullets, k)[i + 1] = C23_Relative(r)

(***************************************************************************)
(* C24: for a bullet line "- " + text and a query, the variant keys under  *)
(* which findBulletListsContainingTag captures the line are the variant    *)
(* keys under which findSmallestUnitsContainingTag reports text; so one    *)
(* scanner finds a match exactly when the other does.                      *)
(***************************************************************************)
C24_IsBulletOfText == StartsWith(content, <<"-", " ">>)

C24_Text == SubSeq(content, 3, Len(content))

C24_SameMatching ==
    ("findBulletListsContainingTag" \in called /\ C24_IsBulletOfText) =>
        Range(MapKeys(bullets))
            = Range(MapKeys(findSmallestUnitsContainingTag(C24_Text, tag, FALSE)))

(***************************************************************************)
(* C25: every unit reported by findSmallestUnitsContainingTag is one       *)
(* sentence: it has no sentence terminator (".", "!", "?") or line break   *)
(* before its last character, so a line of several sentences is reported   *)
(* by the sentence holding the tag and not as a whole.                     *)
(***************************************************************************)
C25_Terminators == {".", "!", "?", "\n"}

C25_IsOneUnit(u) == \A i \in 1..(Len(u) - 1) : u[i] \notin C25_Terminators

C25_SmallestUnit ==
    "findSmallestUnitsContainingTag" \in called =>
        \A i \in 1..Len(units) :
            \A j \in 1..Len(units[i].val) : C25_IsOneUnit(units[i].val[j])

(***************************************************************************)
(* C26: whatever the order of the file-open events and of the awaits, the  *)
(* migration writes into a note at most once.  A call that arrives while a *)
(* migration of the same path is in progress returns at once and changes   *)
(* nothing; a call that reads a note holding a tag-page block or the       *)
(* marker returns without writing; and the one write is made on a note     *)
(* that holds neither and puts both into it.                               *)
(***************************************************************************)
C26_MigrationWrites(path) ==
    {k \in 1..Len(vaultLog) :
        vaultLog[k].path = path /\ calls[vaultLog[k].by].op = "migrate"}

C26_AtMostOnce ==
    \A path \in DOMAIN MigrateVault : Cardinality(C26_MigrationWrites(path)) <= 1

C26_Arrives(file) ==
    /\ Len(calls') = Len(calls) + 1
    /\ calls'[Len(calls')].op = "migrate"
    /\ calls'[Len(calls')].file = file

C26_Reads(i) ==
    /\ i <= Len(calls)
    /\ calls[i].op = "migrate"
    /\ calls[i].pc = "read"
    /\ calls'[i].pc # "read"

C26_Writes(i) ==
    /\ i <= Len(calls)
    /\ calls[i].op = "migrate"
    /\ calls[i].pc = "modify"
    /\ calls'[i].pc = "done"

C26_Migrated(text) == HasTagPageBlock(text) \/ Includes(text, LEGACY_CONTENT_MARKER)

C26_Step ==
    /\ \A file \in DOMAIN MigrateVault :
        (C26_Arrives(file) /\ file \in legacyMigrationInProgress) =>
            /\ calls'[Len(calls')].pc = "done"
            /\ vaultFiles' = vaultFiles
            /\ vaultLog' = vaultLog
    /\ \A i \in 1..MaxCalls :
        /\ (C26_Reads(i) /\ C26_Migrated(vaultFiles[calls[i].file])) =>
                /\ calls'[i].pc = "done"
                /\ vaultFiles' = vaultFiles
        /\ C26_Writes(i) =>
                /\ ~C26_Migrated(vaultFiles[calls[i].file])
                /\ HasTagPageBlock(vaultFiles'[calls[i].file])
                /\ Includes(vaultFiles'[calls[i].file], LEGACY_CONTENT_MARKER)
                /\ \A path \in DOMAIN MigrateVault \ {calls[i].file} :
                        vaultFiles'[path] = vaultFiles[path]

C26_MigratesAtMostOnce == [][C26_Step]_vars /\ []C26_AtMostOnce

\* the second file-open of the legacy page has returned while the first call
\* is waiting for its write
C26_Witness ==
    /\ Len(calls) >= 2
    /\ calls[1] = Call("migrate", "modify", PathLegacy, calls[1].value, calls[1].next)
    /\ calls[2].op = "migrate"
    /\ calls[2].file = PathLegacy
    /\ calls[2].pc = "done"

\* three file-open events of the legacy page, one write
C26_WitnessReopened ==
    /\ Len(calls) = 3
    /\ \A i \in 1..3 : calls[i].op = "migrate" /\ calls[i].file = PathLegacy /\ calls[i].pc = "done"
    /\ Len(vaultLog) = 1
    /\ legacyMigrationInProgress = {}

(***************************************************************************)
(* C27: the clean-up command changes no file when there is no active file  *)
(* or when the note it read holds no marker.  Its write leaves the note    *)
(* without the marker: the text before the first marker is kept, front     *)
(* matter and tag-page block included, ending in exactly one line break,   *)
(* and every other file is unchanged.  No migration write ever follows a   *)
(* clean-up write of the same note.                                        *)
(***************************************************************************)
C27_Starts ==
    /\ Len(calls') = Len(calls) + 1
    /\ calls'[Len(calls')].op = "cleanup"

C27_Reads(i) ==
    /\ i <= Len(calls)
    /\ calls[i].op = "cleanup"
    /\ calls[i].pc = "read"
    /\ calls'[i].pc # "read"

C27_Writes(i) ==
    /\ i <= Len(calls)
    /\ calls[i].op = "cleanup"
    /\ calls[i].pc = "modify"
    /\ calls'[i].pc = "done"

C27_HasMarker(text) == Includes(text, LEGACY_CONTENT_MARKER)

\* the text before the first marker of a text that holds one
C27_BeforeMarker(text) ==
    SubSeq(text, 1,
           (CHOOSE i \in 1..Len(text) :
                /\ OccursAt(text, LEGACY_CONTENT_MARKER, i)
                /\ \A k \in 1..(i - 1) : ~OccursAt(text, LEGACY_CONTENT_MARKER, k)) - 1)

C27_Step ==
    /\ (C27_Starts /\ activeFile = <<>>) =>
            /\ calls'[Len(calls')].pc = "done"
            /\ vaultFiles' = vaultFiles
    /\ \A i \in 1..MaxCalls :
        /\ (C27_Reads(i) /\ ~C27_HasMarker(vaultFiles[calls[i].file])) =>
                /\ calls'[i].pc = "done"
                /\ vaultFiles' = vaultFiles
        /\ C27_Writes(i) =>
            LET before == vaultFiles[calls[i].file]
                after == vaultFiles'[calls[i].file]
            IN  /\ ~C27_HasMarker(after)
                /\ after = TrimEnd(after) \o <<"\n">>
                /\ TrimEnd(after) =
                        TrimEnd(IF C27_HasMarker(before) THEN C27_BeforeMarker(before)
                                ELSE before)
                /\ FrontmatterMatch(after) = FrontmatterMatch(before)
                /\ HasTagPageBlock(after)
                /\ \A path \in DOMAIN MigrateVault \ {calls[i].file} :
                        vaultFiles'[path] = vaultFiles[path]

C27_NoMigrationAfterCleanup ==
    \A j, k \in 1..Len(vaultLog) :
        (/\ j < k
         /\ vaultLog[j].path = vaultLog[k].path
         /\ calls[vaultLog[j].by].op = "cleanup") =>
            calls[vaultLog[k].by].op = "cleanup"

C27_CleanupRemovesLegacyContent == [][C27_Step]_vars /\ []C27_NoMigrationAfterCleanup

\* migrated, cleaned up, opened again: the third call returned without writing
C27_Witness ==
    /\ Len(calls) >= 3
    /\ vaultLog = <<[op |-> "modify", path |-> PathLegacy, by |-> 1],
                    [op |-> "modify", path |-> PathLegacy, by |-> 2]>>
    /\ calls[2].op = "cleanup"
    /\ calls[3] = Call("migrate", "done", PathLegacy, calls[3].value, <<>>)
    /\ ~C27_HasMarker(vaultFiles[PathLegacy])
    /\ HasTagPageBlock(vaultFiles[PathLegacy])
    /\ ~Includes(vaultFiles[PathLegacy], <<"o", "l", "d">>)

\* the command with no active file, and on a note without the marker
C27_WitnessNothingToDo ==
    /\ Len(calls) >= 3
    /\ calls[1] = Call("cleanup", "done", <<>>, <<>>, <<>>)
    /\ calls[3] = Call("cleanup", "done", PathNote, <<>>, <<>>)
    /\ vaultLog = <<>>

(***************************************************************************)
(* C28: the sections of a block are created, and the vault scanned, for    *)
(* the tags of the source in the order they are listed, each tag once.  A  *)
(* step never changes the section of another tag; a rejected promise turns *)
(* the section of the current tag into the failure message and the handler *)
(* goes on with the next tag.  When the handler has finished every tag has *)
(* a section showing its markdown or the failure message and none shows    *)
(* the loading indicator.  A source without tags shows only the message    *)
(* that no tags were provided and nothing is scanned.                      *)
(***************************************************************************)
C28_SourceWords == SplitWhitespace(content, <<>>)

\* the first position at which the source lists the tag, with or without "#"
C28_ListedAt(t) ==
    LET at == {i \in 1..Len(C28_SourceWords) :
                    C28_SourceWords[i] = t \/ <<"#">> \o C28_SourceWords[i] = t}
    IN  IF at = {} THEN 0 ELSE CHOOSE i \in at : \A k \in at : i <= k

C28_HasTagsLine ==
    \E i \in 1..Len(C28_SourceWords) :
        /\ ToLowerCase(C28_SourceWords[i]) = <<"t", "a", "g", "s", ":">>
        /\ i < Len(C28_SourceWords)

C28_InListedOrder ==
    /\ \A i \in 1..Len(sections) :
            sections[i].body # "no tags" => C28_ListedAt(sections[i].tag) > 0
    /\ \A i, j \in 1..Len(sections) :
            i < j => C28_ListedAt(sections[i].tag) < C28_ListedAt(sections[j].tag)
    /\ \A i \in 1..Len(vaultLog) : vaultLog[i].path = sections[i].tag

C28_Finished ==
    (calls # <<>> /\ calls[1].pc = "done") =>
        IF C28_HasTagsLine
        THEN /\ Len(vaultLog) = Len(sections)
             /\ \A w \in Range(C28_SourceWords) :
                    ToLowerCase(w) # <<"t", "a", "g", "s", ":">> =>
                        \/ \E i \in 1..Len(sections) :
                                sections[i].tag = w \/ sections[i].tag = <<"#">> \o w
                        \/ LET k == CHOOSE k \in 1..Len(C28_SourceWords) : C28_SourceWords[k] = w
                           IN  \E i \in 1..k : C28_SourceWords[i] = <<"T", "A", "G", "S", ":">>
             /\ \A i \in 1..Len(sections) :
                    /\ ~sections[i].loading
                    /\ sections[i].body \in {"markdown", "failed"}
        ELSE /\ sections = <<NoTagsMessage>>
             /\ vaultLog = <<>>

C28_Step ==
    calls # <<>> =>
        LET index == calls[1].index
        IN  /\ \A j \in 1..Len(sections) : j # index => sections'[j] = sections[j]
            /\ (sections[index].body # "failed" /\ sections'[index].body = "failed") =>
                    /\ ~sections'[index].loading
                    /\ IF index < Len(calls[1].tags)
                       THEN /\ calls'[1].pc = "fetch"
                            /\ calls'[1].index = index + 1
                            /\ Len(sections') = index + 1
                            /\ sections'[index + 1].loading
                            /\ Len(vaultLog') = Len(vaultLog) + 1
                       ELSE calls'[1].pc = "done"

C28_FailuresAreIsolated == [][C28_Step]_vars /\ []C28_InListedOrder /\ []C28_Finished

\* three tags: the first failed, the second was rendered, the third failed
C28_Witness ==
    /\ calls # <<>>
    /\ calls[1].pc = "done"
    /\ Len(sections) = 3
    /\ sections[1] = [tag |-> <<"#", "b">>, loading |-> FALSE, body |-> "failed", text |-> <<>>]
    /\ sections[2].tag = TagA
    /\ sections[2].body = "markdown"
    /\ sections[2].text # <<>>
    /\ sections[3].tag = QueryAWild
    /\ sections[3].body = "failed"
    /\ Len(vaultLog) = 3

C28_WitnessNoTags ==
    /\ calls # <<>>
    /\ calls[1].pc = "done"
    /\ content = <<"x", "\n">>
    /\ sections = <<NoTagsMessage>>

(***************************************************************************)
(* C29: generateFilename gives different queries different files: two      *)
(* calls of createTagPage for different queries never open the same file,  *)
(* so the page a call opens is the page of its own query.                  *)
(***************************************************************************)
\* the query a call of createTagPage stands for
C29_QueryOf(t) == IF StartsWith(t, <<"#">>) THEN t ELSE <<"#">> \o t

C29_Step ==
    (/\ tag # TagEmpty
     /\ tag' # TagEmpty
     /\ C29_QueryOf(tag') # C29_QueryOf(tag)) => activeFile' # activeFile

C29_OpenedPageIsForQuery ==
    tag # TagEmpty =>
        StartsWith(vaultFiles[activeFile], buildTagPageTemplate(C29_QueryOf(tag)))

C29_FilenameIsInjective == [][C29_Step]_vars /\ []C29_OpenedPageIsForQuery

(***************************************************************************)
(* C30: when invocations of createTagPage overlap, neither createFolder    *)
(* nor create is ever called for a path that exists, no invocation is      *)
(* rejected, and the folder and each page are created at most once.        *)
(***************************************************************************)
C30_Created(path) ==
    {k \in 1..Len(vaultLog) :
        /\ vaultLog[k].path = path
        /\ vaultLog[k].op \in {"createFolder", "create"}
        /\ calls[vaultLog[k].by].pc \in {"openFile", "done"}}

C30_OverlappingCallsCreateOnce ==
    /\ \A k \in 1..Len(vaultLog) : ~vaultLog[k].existed
    /\ \A i \in 1..Len(calls) : calls[i].pc # "rejected"
    /\ \A t \in OverlapTags : Cardinality(C30_Created(TagPagePath(settings, t))) <= 1

(***************************************************************************)
(* C9 (as stated): isWildCard is true iff the raw string ends with "/*",   *)
(* the cleaned tag never ends with "/*", and it equals the input when the  *)
(* suffix is absent.                                                       *)
(***************************************************************************)
RawEndsWithWildcard ==
    /\ Len(tag) >= 2
    /\ tag[Len(tag) - 1] = "/"
    /\ tag[Len(tag)] = "*"

CleanedEndsWithWildcard ==
    LET c == wildCard.cleanedTag
    IN  /\ Len(c) >= 2
        /\ c[Len(c) - 1] = "/"
        /\ c[Len(c)] = "*"

C9_CleanedNeverEndsWithWildcard ==
    "getIsWildCard" \in called =>
        /\ wildCard.isWildCard <=> RawEndsWithWildcard
        /\ ~CleanedEndsWithWildcard
        /\ (~RawEndsWithWildcard => wildCard.cleanedTag = tag)

(***************************************************************************)
(* C9 (amended): isWildCard is true iff the raw string ends with "/*"; the *)
(* cleaned tag is the raw string with exactly one trailing "/*" removed    *)
(* (the raw string itself when the suffix is absent), so it ends with "/*" *)
(* only when the raw string ended with "/*/*".                             *)
(***************************************************************************)
C9_StripsOneWildcardSuffix ==
    "getIsWildCard" \in called =>
        /\ wildCard.isWildCard <=> RawEndsWithWildcard
        /\ (RawEndsWithWildcard => wildCard.cleanedTag \o <<"/", "*">> = tag)
        /\ (~RawEndsWithWildcard => wildCard.cleanedTag = tag)
        /\ (CleanedEndsWithWildcard =>
                /\ Len(tag) >= 4
                /\ SubSeq(tag, Len(tag) - 3, Len(tag)) = <<"/", "*", "/", "*">>)

C9_Witness ==
    /\ "getIsWildCard" \in called
    /\ tag = <<"#", "a", "/", "*">>
    /\ wildCard = [isWildCard |-> TRUE, cleanedTag |-> <<"#", "a">>]

====
